---- MODULE Spec2Model ----
(***************************************************************************)
(* A model of sajs, a streaming SAX-style JSON lexer and writer.           *)
(*                                                                         *)
(* The lexer (src/src/lexer.c) is a pushdown automaton driven one byte at  *)
(* a time by sajs_read_byte; the writer (src/src/writer.c) turns lexer     *)
(* events into text fragments.  Every C function is an operator that       *)
(* returns what the function returns together with the object it mutated.  *)
(***************************************************************************)
EXTENDS Integers, Sequences, FiniteSets, TLC

(***************************************************************************)
(* Enumerations of include/sajs/sajs.h and src/lexer.c, with their values. *)
(***************************************************************************)

\* SajsStatus
SAJS_SUCCESS == 0
SAJS_FAILURE == 1
SAJS_RETRY == 2
SAJS_NO_DATA == 3
SAJS_OVERFLOW == 4
SAJS_UNDERFLOW == 5
SAJS_BAD_WRITE == 6
SAJS_EXPECTED_COLON == 7
SAJS_EXPECTED_COMMA == 8
SAJS_EXPECTED_CONTINUATION == 9
SAJS_EXPECTED_DECIMAL == 10
SAJS_EXPECTED_DIGIT == 11
SAJS_EXPECTED_EXPONENT == 12
SAJS_EXPECTED_HEX == 13
SAJS_EXPECTED_LITERAL == 14
SAJS_EXPECTED_PRINTABLE == 15
SAJS_EXPECTED_QUOTE == 16
SAJS_EXPECTED_STRING_ESCAPE == 17
SAJS_EXPECTED_UTF16_HI == 18
SAJS_EXPECTED_UTF16_LO == 19
SAJS_EXPECTED_UTF8 == 20
SAJS_EXPECTED_VALUE == 21

\* SajsValueKind
SAJS_OBJECT == 1
SAJS_ARRAY == 2
SAJS_STRING == 3
SAJS_NUMBER == 4
SAJS_LITERAL == 5

\* SajsFlag
SAJS_IS_MEMBER_NAME == 1
SAJS_IS_MEMBER_VALUE == 2
SAJS_IS_ELEMENT == 4
SAJS_IS_FIRST == 8
SAJS_HAS_BYTES == 16

\* Event type
SAJS_EVENT_NOTHING == 0
SAJS_EVENT_START == 1
SAJS_EVENT_END == 2
SAJS_EVENT_DOUBLE_END == 3
SAJS_EVENT_BYTES == 4

\* SajsTextPrefix
SAJS_PREFIX_NONE == 0
SAJS_PREFIX_OBJECT_START == 1
SAJS_PREFIX_ARRAY_START == 2
SAJS_PREFIX_OBJECT_END == 3
SAJS_PREFIX_ARRAY_END == 4
SAJS_PREFIX_MEMBER_COLON == 5
SAJS_PREFIX_MEMBER_COMMA == 6
SAJS_PREFIX_ARRAY_COMMA == 7

\* SajsState
STATE_START == 0
STATE_ELEM_FIRST == 1
STATE_ELEM_SEP == 2
STATE_ELEM_NEXT == 3
STATE_MEM_NAME_FIRST == 4
STATE_MEM_NAME_SEP == 5
STATE_MEM_VALUE_START == 6
STATE_MEM_SEP == 7
STATE_MEM_NEXT == 8
STATE_STRING == 9
STATE_STRING_ESC == 10
STATE_STRING_ESC_HEX == 11
STATE_STRING_ESC_LO == 12
STATE_NUM_INT_START == 13
STATE_NUM_INT_CONT == 14
STATE_NUM_INT_END == 15
STATE_NUM_FRAC_START == 16
STATE_NUM_FRAC_CONT == 17
STATE_NUM_EXP_START == 18
STATE_NUM_EXP_INT_START == 19
STATE_NUM_EXP_INT_CONT == 20
STATE_FALSE == 21
STATE_NULL == 22
STATE_TRUE == 23

\* sizeof(SajsFrame): typedef uint8_t SajsFrame
SizeofSajsFrame == 1
\* sizeof(struct SajsLexerImpl) on an LP64 target: 8+8+4+4+4+4+4, padded to 8
SizeofSajsLexer == 40
\* sizeof(struct SajsWriterImpl): 4+4+4+8
SizeofSajsWriter == 20

(***************************************************************************)
(* C character literals, as the byte values the code compares against.     *)
(***************************************************************************)
Ch == [tab |-> 9, lf |-> 10, cr |-> 13, space |-> 32, quote |-> 34,
       plus |-> 43, comma |-> 44, minus |-> 45, dot |-> 46, slash |-> 47,
       zero |-> 48, one |-> 49, eight |-> 56, nine |-> 57, colon |-> 58,
       A |-> 65, E |-> 69, F |-> 70,
       lbracket |-> 91, backslash |-> 92, rbracket |-> 93,
       a |-> 97, b |-> 98, c |-> 99, d |-> 100, e |-> 101, f |-> 102,
       l |-> 108, n |-> 110, r |-> 114, s |-> 115, t |-> 116, u |-> 117,
       x |-> 120, lbrace |-> 123, rbrace |-> 125,
       bs |-> 8, ff |-> 12, sub |-> 26, nul |-> 0, vt |-> 11]

EOF == -1

(***************************************************************************)
(* Machine arithmetic.  TLC integers are 32-bit signed, so a uint32_t is   *)
(* kept as its two 16-bit halves.                                          *)
(***************************************************************************)
RECURSIVE BitOr(_, _)
BitOr(x, y) ==
  IF x = 0 THEN y
  ELSE IF y = 0 THEN x
  ELSE (IF x % 2 = 1 \/ y % 2 = 1 THEN 1 ELSE 0) + 2 * BitOr(x \div 2, y \div 2)

RECURSIVE BitAnd(_, _)
BitAnd(x, y) ==
  IF x = 0 \/ y = 0 THEN 0
  ELSE (IF x % 2 = 1 /\ y % 2 = 1 THEN 1 ELSE 0) + 2 * BitAnd(x \div 2, y \div 2)

RECURSIVE Pow2(_)
Pow2(k) == IF k = 0 THEN 1 ELSE 2 * Pow2(k - 1)

U32(h, l) == [hi |-> h, lo |-> l]
U32Zero == U32(0, 0)
U32OfInt(i) == U32((i \div 65536) % 65536, i % 65536)
\* (v << 4U) | nibble, nibble < 16
U32Shl4Or(v, nib) ==
  U32((v.hi * 16 + (v.lo \div 4096)) % 65536, ((v.lo * 16) % 65536) + nib)
U32Add(x, y) ==
  U32((x.hi + y.hi + ((x.lo + y.lo) \div 65536)) % 65536, (x.lo + y.lo) % 65536)
\* x - y modulo 2^32
U32Sub(x, y) ==
  LET borrow == IF x.lo < y.lo THEN 1 ELSE 0
  IN  U32((x.hi - y.hi - borrow) % 65536, (x.lo - y.lo) % 65536)
\* x * 0x400U modulo 2^32
U32Mul1024(x) ==
  U32((x.hi * 1024 + ((x.lo * 1024) \div 65536)) % 65536, (x.lo * 1024) % 65536)
\* v < n for a bound n < 2^31
U32Less(v, n) == v.hi < 32768 /\ v.hi * 65536 + v.lo < n
\* the value as an integer, for v < 2^31
U32Int(v) == v.hi * 65536 + v.lo

(***************************************************************************)
(* Utilities of lexer.c                                                    *)
(***************************************************************************)

\* Character Classification
is_digit(c) == c >= Ch.zero /\ c <= Ch.nine

is_xdigit(c) ==
  is_digit(c) \/ (c >= Ch.A /\ c <= Ch.F) \/ (c >= Ch.a /\ c <= Ch.f)

is_space(c) == c = Ch.tab \/ c = Ch.lf \/ c = Ch.cr \/ c = Ch.space

\* Faulty variant: the offset 0x10000 of the supplementary planes is left out
utf16_surrogates_codepoint_no_offset(high, low) ==
  U32Add(U32Mul1024(U32Sub(U32OfInt(high), U32OfInt(55296))),
         U32Sub(U32OfInt(low), U32OfInt(56320)))

\* Text Encoding: high and low are uint16_t, the arithmetic is unsigned 32-bit
utf16_surrogates_codepoint(high, low) ==
  U32Add(U32Add(U32Mul1024(U32Sub(U32OfInt(high), U32OfInt(55296))),
                U32Sub(U32OfInt(low), U32OfInt(56320))),
         U32OfInt(65536))

utf8_num_bytes_for_codepoint(code) ==
  IF U32Less(code, 128) THEN 1
  ELSE IF U32Less(code, 2048) THEN 2
  ELSE IF U32Less(code, 65536) THEN 3
  ELSE IF U32Less(code, 1114112) THEN 4
  ELSE 0

\* static uint32_t const masks[4] = {0x0U, 0xC0U, 0x800U, 0x10000U}
masks == [i \in 0..3 |-> CASE i = 0 -> 0 [] i = 1 -> 192 [] i = 2 -> 2048 [] i = 3 -> 65536]

\* the loop  for (uint8_t s = size; --s;) { ... }  entered with s already decremented
RECURSIVE utf8_loop(_, _, _)
utf8_loop(out, c, s) ==
  IF s = 0 THEN [out |-> out, c |-> c]
  ELSE utf8_loop([out EXCEPT ![s] = BitOr(128, BitAnd(c, 63))],
                 BitOr(c \div 64, masks[s]),
                 s - 1)

\* returns the size and the updated out[4]
utf8_from_codepoint(out, code) ==
  LET size == utf8_num_bytes_for_codepoint(code)
  IN  IF size # 0
      THEN LET r == utf8_loop(out, U32Int(code), size - 1)
           IN  [size |-> size, out |-> [r.out EXCEPT ![0] = r.c % 256]]
      ELSE [size |-> size, out |-> out]

UINT8_MAX == 255

hex_nibble(c) ==
  IF is_digit(c) THEN c - Ch.zero
  ELSE IF c >= Ch.A /\ c <= Ch.F THEN 10 + c - Ch.A
  ELSE IF c >= Ch.a /\ c <= Ch.f THEN 10 + c - Ch.a
  ELSE UINT8_MAX

(***************************************************************************)
(* Lexer state.  A lexer is the record                                     *)
(*   [max_depth, top, value, length, flags, num_bytes, bytes, stack]       *)
(* (struct SajsLexerImpl followed by its stack memory); bytes is indexed   *)
(* 0..3 and stack 0..max_depth-1.  A function that mutates the lexer and   *)
(* returns an event is an operator returning [e |-> event, l |-> lexer].   *)
(***************************************************************************)
NULL == [null |-> TRUE]

top_frame(lexer) == lexer.top

\* Faulty variant: the size check forgets the first frame
sajs_lexer_init_no_frame(mem_size, mem) ==
  IF mem_size < SizeofSajsLexer
  THEN NULL
  ELSE LET max_depth == (mem_size - SizeofSajsLexer) \div SizeofSajsFrame
       IN  [null      |-> FALSE,
            max_depth |-> max_depth,
            top       |-> 0,
            value     |-> U32Zero,
            length    |-> 0,
            flags     |-> 0,
            num_bytes |-> mem.word,
            bytes     |-> [i \in 0..3 |-> mem.byte],
            stack     |-> [i \in 0..(max_depth - 1) |->
                             IF i = 0 THEN STATE_START ELSE mem.byte]]

\* mem is the caller's memory as it was before the call
sajs_lexer_init(mem_size, mem) ==
  IF mem_size < SizeofSajsLexer + SizeofSajsFrame
  THEN NULL
  ELSE LET stack_size == mem_size - SizeofSajsLexer
           max_depth  == stack_size \div SizeofSajsFrame
       IN  [null      |-> FALSE,
            max_depth |-> max_depth,
            top       |-> 0,
            value     |-> U32Zero,
            length    |-> 0,
            flags     |-> 0,
            num_bytes |-> mem.word,
            bytes     |-> [i \in 0..3 |-> mem.byte],
            stack     |-> [i \in 0..(max_depth - 1) |->
                             IF i = 0 THEN STATE_START ELSE mem.byte]]

(***************************************************************************)
(* Events                                                                  *)
(***************************************************************************)
SajsEvent(st, ty, k, f) == [flags |-> f, status |-> st, type |-> ty, kind |-> k]

Ret(event, lexer) == [e |-> event, l |-> lexer]

bytes_event == SajsEvent(SAJS_SUCCESS, SAJS_EVENT_BYTES, 0, SAJS_HAS_BYTES)

do_nothing(st) == SajsEvent(st, SAJS_EVENT_NOTHING, 0, 0)

do_byte(lexer, c) ==
  Ret(bytes_event,
      [lexer EXCEPT !.bytes = [@ EXCEPT ![0] = c, ![1] = 0],
                    !.num_bytes = 1])

do_codepoint(lexer, codepoint) ==
  LET u  == utf8_from_codepoint(lexer.bytes, codepoint)
      l1 == [lexer EXCEPT !.num_bytes = u.size, !.bytes = u.out]
  IN  Ret(IF l1.num_bytes # 0 THEN bytes_event ELSE do_nothing(SAJS_EXPECTED_UTF8),
          l1)

\* Faulty variant: the overflow check is off by one (> for >=)
push_off_by_one(lexer, kind, flags, state, first) ==
  IF lexer.top + 1 > lexer.max_depth
  THEN Ret(do_nothing(SAJS_OVERFLOW), lexer)
  ELSE LET len    == IF first # 0 THEN 1 ELSE 0
           rflags == BitOr(flags, IF first # 0 THEN SAJS_HAS_BYTES ELSE 0)
       IN  Ret(SajsEvent(SAJS_SUCCESS, SAJS_EVENT_START, kind, rflags % 256),
               [lexer EXCEPT !.top = @ + 1,
                             !.stack = [i \in 0..(lexer.top + 1) |->
                                          IF i = lexer.top + 1 THEN state
                                          ELSE lexer.stack[i]],
                             !.flags = flags,
                             !.length = len,
                             !.num_bytes = len,
                             !.bytes = [@ EXCEPT ![0] = first, ![1] = 0]])

\* Faulty variant: an overflow is reported on a Start event
push_start_on_overflow(lexer, kind, flags, state, first) ==
  IF lexer.top + 1 >= lexer.max_depth
  THEN Ret(SajsEvent(SAJS_OVERFLOW, SAJS_EVENT_START, kind, flags), lexer)
  ELSE LET len    == IF first # 0 THEN 1 ELSE 0
           rflags == BitOr(flags, IF first # 0 THEN SAJS_HAS_BYTES ELSE 0)
       IN  Ret(SajsEvent(SAJS_SUCCESS, SAJS_EVENT_START, kind, rflags % 256),
               [lexer EXCEPT !.top = @ + 1,
                             !.stack = [@ EXCEPT ![lexer.top + 1] = state],
                             !.flags = flags,
                             !.length = len,
                             !.num_bytes = len,
                             !.bytes = [@ EXCEPT ![0] = first, ![1] = 0]])

\* Faulty variant: the first byte of a value is not counted in the length
push_length_zero(lexer, kind, flags, state, first) ==
  IF lexer.top + 1 >= lexer.max_depth
  THEN Ret(do_nothing(SAJS_OVERFLOW), lexer)
  ELSE LET len    == IF first # 0 THEN 1 ELSE 0
           rflags == BitOr(flags, IF first # 0 THEN SAJS_HAS_BYTES ELSE 0)
       IN  Ret(SajsEvent(SAJS_SUCCESS, SAJS_EVENT_START, kind, rflags % 256),
               [lexer EXCEPT !.top = @ + 1,
                             !.stack = [@ EXCEPT ![lexer.top + 1] = state],
                             !.flags = flags,
                             !.length = 0,
                             !.num_bytes = len,
                             !.bytes = [@ EXCEPT ![0] = first, ![1] = 0]])

\* Stack Changes
push(lexer, kind, flags, state, first) ==
  IF lexer.top + 1 >= lexer.max_depth
  THEN Ret(do_nothing(SAJS_OVERFLOW), lexer)
  ELSE LET len    == IF first # 0 THEN 1 ELSE 0
           rflags == BitOr(flags, IF first # 0 THEN SAJS_HAS_BYTES ELSE 0)
       IN  Ret(SajsEvent(SAJS_SUCCESS, SAJS_EVENT_START, kind, rflags % 256),
               [lexer EXCEPT !.top = @ + 1,
                             !.stack = [@ EXCEPT ![lexer.top + 1] = state],
                             !.flags = flags,
                             !.length = len,
                             !.num_bytes = len,
                             !.bytes = [@ EXCEPT ![0] = first, ![1] = 0]])

pop(lexer, kind, success_status, last) ==
  LET flags == IF last # 0 THEN SAJS_HAS_BYTES ELSE 0
      l1    == [lexer EXCEPT !.bytes = [@ EXCEPT ![0] = last, ![1] = 0]]
      l2    == IF l1.top # 0 THEN [l1 EXCEPT !.top = @ - 1] ELSE l1
      st    == IF l1.top # 0 THEN success_status ELSE SAJS_UNDERFLOW
  IN  Ret(SajsEvent(st, SAJS_EVENT_END, kind, flags),
          [l2 EXCEPT !.length = 0, !.num_bytes = 0, !.flags = 0])

\* State Transitions: frame is the index of the frame the handler was given
do_reset(lexer, frame, state, flags) ==
  Ret(do_nothing(SAJS_SUCCESS),
      [lexer EXCEPT !.stack = [@ EXCEPT ![frame] = state], !.flags = flags])

do_reset_if(lexer, frame, state, flags, e) ==
  IF e.status = 0
  THEN Ret(e, [lexer EXCEPT !.stack = [@ EXCEPT ![frame] = state], !.flags = flags])
  ELSE Ret(e, lexer)

do_change(lexer, frame, state) ==
  Ret(do_nothing(SAJS_SUCCESS), [lexer EXCEPT !.stack = [@ EXCEPT ![frame] = state]])

\* Faulty variant: the frame is changed whatever the result was
do_change_if_always(lexer, frame, state, e) ==
  Ret(e, [lexer EXCEPT !.stack = [@ EXCEPT ![frame] = state]])

do_change_if(lexer, frame, state, e) ==
  IF e.status = 0
  THEN Ret(e, [lexer EXCEPT !.stack = [@ EXCEPT ![frame] = state]])
  ELSE Ret(e, lexer)

do_byte_change(lexer, frame, state, c) ==
  do_byte([lexer EXCEPT !.stack = [@ EXCEPT ![frame] = state]], c)

(***************************************************************************)
(* Character Handlers                                                      *)
(***************************************************************************)

\* Values
eat_value(lexer, flags, c) ==
  CASE c = Ch.quote    -> push(lexer, SAJS_STRING, flags, STATE_STRING, 0)
    [] c = Ch.minus    -> push(lexer, SAJS_NUMBER, flags, STATE_NUM_INT_START, c)
    [] c = Ch.zero     -> push(lexer, SAJS_NUMBER, flags, STATE_NUM_INT_END, c)
    [] c = Ch.lbracket -> push(lexer, SAJS_ARRAY, flags, STATE_ELEM_FIRST, 0)
    [] c = Ch.lbrace   -> push(lexer, SAJS_OBJECT, flags, STATE_MEM_NAME_FIRST, 0)
    [] c = Ch.f        -> push(lexer, SAJS_LITERAL, flags, STATE_FALSE, c)
    [] c = Ch.n        -> push(lexer, SAJS_LITERAL, flags, STATE_NULL, c)
    [] c = Ch.t        -> push(lexer, SAJS_LITERAL, flags, STATE_TRUE, c)
    [] OTHER -> IF is_digit(c)
                THEN push(lexer, SAJS_NUMBER, flags, STATE_NUM_INT_CONT, c)
                ELSE Ret(do_nothing(SAJS_EXPECTED_VALUE), lexer)

\* Faulty variant: the top-level value is flagged as a first one
eat_start_is_first(lexer, frame, c) == eat_value(lexer, SAJS_IS_FIRST, c)

\* Faulty variant: the bottom frame is changed when a value starts, as the
\* frame of an array is
eat_start_changes_frame(lexer, frame, c) ==
  LET r == eat_value(lexer, 0, c)
  IN  do_change_if(r.l, frame, STATE_ELEM_SEP, r.e)

\* Faulty variant: a closing bracket is taken at the top level
eat_start_closes(lexer, frame, c) ==
  IF c = Ch.rbracket THEN pop(lexer, SAJS_ARRAY, SAJS_SUCCESS, 0)
  ELSE eat_value(lexer, 0, c)

eat_start(lexer, frame, c) == eat_value(lexer, 0, c)

\* Arrays
eat_elem_first(lexer, frame, c) ==
  IF c = Ch.rbracket
  THEN pop(lexer, SAJS_ARRAY, SAJS_SUCCESS, 0)
  ELSE LET r == eat_value(lexer, BitOr(SAJS_IS_ELEMENT, SAJS_IS_FIRST), c)
       IN  do_reset_if(r.l, frame, STATE_ELEM_SEP, SAJS_IS_ELEMENT, r.e)

eat_elem_sep(lexer, frame, c) ==
  IF c = Ch.rbracket THEN pop(lexer, SAJS_ARRAY, SAJS_SUCCESS, 0)
  ELSE IF c = Ch.comma THEN do_reset(lexer, frame, STATE_ELEM_NEXT, SAJS_IS_ELEMENT)
  ELSE Ret(do_nothing(SAJS_EXPECTED_COMMA), lexer)

\* Faulty variant: every element is flagged as the first
eat_elem_next_is_first(lexer, frame, c) ==
  LET r == eat_value(lexer, BitOr(SAJS_IS_ELEMENT, SAJS_IS_FIRST), c)
  IN  do_change_if(r.l, frame, STATE_ELEM_SEP, r.e)

eat_elem_next(lexer, frame, c) ==
  LET r == eat_value(lexer, SAJS_IS_ELEMENT, c)
  IN  do_change_if(r.l, frame, STATE_ELEM_SEP, r.e)

\* Objects
eat_mem_name_first(lexer, frame, c) ==
  IF c = Ch.rbrace THEN pop(lexer, SAJS_OBJECT, SAJS_SUCCESS, 0)
  ELSE IF c # Ch.quote THEN Ret(do_nothing(SAJS_EXPECTED_QUOTE), lexer)
  ELSE LET r == push(lexer, SAJS_STRING,
                     BitOr(SAJS_IS_FIRST, SAJS_IS_MEMBER_NAME), STATE_STRING, 0)
       IN  do_change_if(r.l, frame, STATE_MEM_NAME_SEP, r.e)

eat_mem_name_sep(lexer, frame, c) ==
  IF c = Ch.colon
  THEN do_reset(lexer, frame, STATE_MEM_VALUE_START, SAJS_IS_MEMBER_VALUE)
  ELSE Ret(do_nothing(SAJS_EXPECTED_COLON), lexer)

\* eat_mem_value_start passing the flag of an array element
eat_mem_value_start_as_element(lexer, frame, c) ==
  LET r == eat_value(lexer, SAJS_IS_ELEMENT, c)
  IN  do_change_if(r.l, frame, STATE_MEM_SEP, r.e)

eat_mem_value_start(lexer, frame, c) ==
  LET r == eat_value(lexer, SAJS_IS_MEMBER_VALUE, c)
  IN  do_change_if(r.l, frame, STATE_MEM_SEP, r.e)

eat_mem_sep(lexer, frame, c) ==
  IF c = Ch.comma THEN do_reset(lexer, frame, STATE_MEM_NEXT, 0)
  ELSE IF c = Ch.rbrace THEN pop(lexer, SAJS_OBJECT, SAJS_SUCCESS, 0)
  ELSE Ret(do_nothing(SAJS_EXPECTED_COMMA), lexer)

\* Faulty variant: the object may end after a comma
eat_mem_next_closes(lexer, frame, c) ==
  IF c = Ch.rbrace THEN pop(lexer, SAJS_OBJECT, SAJS_SUCCESS, 0)
  ELSE IF c = Ch.quote
  THEN LET r == push(lexer, SAJS_STRING, SAJS_IS_MEMBER_NAME, STATE_STRING, 0)
       IN  do_change_if(r.l, frame, STATE_MEM_NAME_SEP, r.e)
  ELSE Ret(do_nothing(SAJS_EXPECTED_QUOTE), lexer)

eat_mem_next(lexer, frame, c) ==
  IF c = Ch.quote
  THEN LET r == push(lexer, SAJS_STRING, SAJS_IS_MEMBER_NAME, STATE_STRING, 0)
       IN  do_change_if(r.l, frame, STATE_MEM_NAME_SEP, r.e)
  ELSE Ret(do_nothing(SAJS_EXPECTED_QUOTE), lexer)

\* Strings
\* Faulty variant: a control character is rejected without popping the string
eat_string_keep_frame(lexer, frame, c) ==
  IF c = Ch.quote THEN pop(lexer, SAJS_STRING, SAJS_SUCCESS, 0)
  ELSE IF c = Ch.backslash THEN do_change(lexer, frame, STATE_STRING_ESC)
  ELSE IF c < Ch.space THEN Ret(do_nothing(SAJS_EXPECTED_PRINTABLE), lexer)
  ELSE do_byte(lexer, c)

eat_string(lexer, frame, c) ==
  IF c = Ch.quote THEN pop(lexer, SAJS_STRING, SAJS_SUCCESS, 0)
  ELSE IF c = Ch.backslash THEN do_change(lexer, frame, STATE_STRING_ESC)
  ELSE IF c < Ch.space THEN pop(lexer, SAJS_STRING, SAJS_EXPECTED_PRINTABLE, 0)
  ELSE do_byte(lexer, c)

eat_string_esc(lexer, frame, c) ==
  CASE c \in {Ch.quote, Ch.slash, Ch.backslash} ->
         do_byte_change(lexer, frame, STATE_STRING, c)
    [] c = Ch.b -> do_byte_change(lexer, frame, STATE_STRING, Ch.bs)
    [] c = Ch.f -> do_byte_change(lexer, frame, STATE_STRING, Ch.ff)
    [] c = Ch.n -> do_byte_change(lexer, frame, STATE_STRING, Ch.lf)
    [] c = Ch.r -> do_byte_change(lexer, frame, STATE_STRING, Ch.cr)
    [] c = Ch.t -> do_byte_change(lexer, frame, STATE_STRING, Ch.tab)
    [] c = Ch.u -> do_change(lexer, frame, STATE_STRING_ESC_HEX)
    [] OTHER -> Ret(do_nothing(SAJS_EXPECTED_STRING_ESCAPE), lexer)

\* Faulty variant: the value is not cleared at the first digit of an escape
eat_string_esc_hex_keeps_value(lexer, frame, c) ==
  IF ~is_xdigit(c) THEN Ret(do_nothing(SAJS_EXPECTED_HEX), lexer)
  ELSE
    LET value  == U32Shl4Or(lexer.value, hex_nibble(c))
        length == lexer.length + 1
        l1     == [lexer EXCEPT !.value = value, !.length = length]
    IN  IF length < 4 THEN Ret(do_nothing(SAJS_SUCCESS), l1)
        ELSE IF ~U32Less(value, 56320) /\ U32Less(value, 57344)
        THEN Ret(do_nothing(SAJS_EXPECTED_UTF16_HI), l1)
        ELSE IF ~U32Less(value, 55296) /\ U32Less(value, 56320)
        THEN do_change(l1, frame, STATE_STRING_ESC_LO)
        ELSE LET r == do_codepoint(l1, value)
             IN  Ret(r.e, [r.l EXCEPT !.length = 0,
                                      !.stack = [@ EXCEPT ![frame] = STATE_STRING]])

eat_string_esc_hex(lexer, frame, c) ==
  IF ~is_xdigit(c) THEN Ret(do_nothing(SAJS_EXPECTED_HEX), lexer)
  ELSE
    \* Append this nibble to the value
    LET value  == IF lexer.length # 0
                  THEN U32Shl4Or(lexer.value, hex_nibble(c))
                  ELSE U32OfInt(hex_nibble(c))
        length == lexer.length + 1  \* ++lexer->length (uint32_t; MaxLength keeps it from wrapping)
        l1     == [lexer EXCEPT !.value = value, !.length = length]
    IN  IF length < 4 THEN Ret(do_nothing(SAJS_SUCCESS), l1)
        ELSE IF ~U32Less(value, 56320) /\ U32Less(value, 57344)
        THEN Ret(do_nothing(SAJS_EXPECTED_UTF16_HI), l1)
        ELSE IF ~U32Less(value, 55296) /\ U32Less(value, 56320)
        THEN do_change(l1, frame, STATE_STRING_ESC_LO)
        ELSE LET r == do_codepoint(l1, value)
             IN  Ret(r.e, [r.l EXCEPT !.length = 0,
                                      !.stack = [@ EXCEPT ![frame] = STATE_STRING]])

eat_string_esc_lo(lexer, frame, c) ==
  IF (lexer.length = 4 /\ c = Ch.backslash) \/ (lexer.length = 5 /\ c = Ch.u)
  THEN Ret(do_nothing(SAJS_SUCCESS), [lexer EXCEPT !.length = @ + 1])
  ELSE IF ~is_xdigit(c) THEN Ret(do_nothing(SAJS_EXPECTED_HEX), lexer)
  ELSE
    LET value  == U32Shl4Or(lexer.value, hex_nibble(c))
        length == lexer.length + 1  \* ++lexer->length (uint32_t; MaxLength keeps it from wrapping)
        l1     == [lexer EXCEPT !.value = value, !.length = length]
        \* Combine surrogates into codepoint
        hi        == value.hi
        lo        == value.lo
        codepoint == utf16_surrogates_codepoint(hi, lo)
    IN  IF length < 10 THEN Ret(do_nothing(SAJS_SUCCESS), l1)
        ELSE IF lo < 56320 \/ lo > 57343
        THEN Ret(do_nothing(SAJS_EXPECTED_UTF16_LO), l1)
        ELSE LET r == do_codepoint(l1, codepoint)
             IN  Ret(r.e, [r.l EXCEPT !.length = 0,
                                      !.stack = [@ EXCEPT ![frame] = STATE_STRING]])

\* Numbers
is_number_end(c) == is_space(c) \/ c = Ch.comma \/ c = Ch.rbracket \/ c = Ch.rbrace

eat_num_int_start(lexer, frame, c) ==
  IF c = Ch.zero THEN do_byte_change(lexer, frame, STATE_NUM_INT_END, c)
  ELSE IF is_digit(c) THEN do_byte_change(lexer, frame, STATE_NUM_INT_CONT, c)
  ELSE Ret(do_nothing(SAJS_EXPECTED_DIGIT), lexer)

eat_num_int_end(lexer, frame, c) ==
  IF is_number_end(c) THEN pop(lexer, SAJS_NUMBER, SAJS_RETRY, 0)
  ELSE IF c = Ch.dot THEN do_byte_change(lexer, frame, STATE_NUM_FRAC_START, c)
  ELSE IF c = Ch.E \/ c = Ch.e
  THEN do_byte_change(lexer, frame, STATE_NUM_EXP_START, c)
  ELSE Ret(do_nothing(SAJS_EXPECTED_DECIMAL), lexer)

eat_num_int_cont(lexer, frame, c) ==
  IF is_digit(c) THEN do_byte(lexer, c) ELSE eat_num_int_end(lexer, frame, c)

eat_num_frac_start(lexer, frame, c) ==
  IF is_digit(c) THEN do_byte_change(lexer, frame, STATE_NUM_FRAC_CONT, c)
  ELSE Ret(do_nothing(SAJS_EXPECTED_DIGIT), lexer)

eat_num_frac_cont(lexer, frame, c) ==
  IF is_digit(c) THEN do_byte(lexer, c)
  ELSE IF c = Ch.e THEN do_byte_change(lexer, frame, STATE_NUM_EXP_START, c)
  ELSE pop(lexer, SAJS_NUMBER, SAJS_RETRY, 0)

eat_num_exp_int_start(lexer, frame, c) ==
  IF is_digit(c) THEN do_byte_change(lexer, frame, STATE_NUM_EXP_INT_CONT, c)
  ELSE Ret(do_nothing(SAJS_EXPECTED_DIGIT), lexer)

eat_num_exp_start(lexer, frame, c) ==
  IF c = Ch.plus \/ c = Ch.minus
  THEN do_byte_change(lexer, frame, STATE_NUM_EXP_INT_START, c)
  ELSE eat_num_exp_int_start(lexer, frame, c)

eat_num_exp_int_cont(lexer, frame, c) ==
  IF is_digit(c) THEN do_byte(lexer, c)
  ELSE IF is_number_end(c) THEN pop(lexer, SAJS_NUMBER, SAJS_RETRY, 0)
  ELSE pop(lexer, SAJS_NUMBER, SAJS_EXPECTED_DIGIT, 0)

\* Faulty variant: the final character is not passed to pop
eat_literal_no_tail(lexer, frame, length, string, c) ==
  IF c # string[lexer.length + 1] THEN Ret(do_nothing(SAJS_EXPECTED_LITERAL), lexer)
  ELSE LET l1 == [lexer EXCEPT !.length = @ + 1]
       IN  IF l1.length = length
           THEN pop(l1, SAJS_LITERAL, SAJS_SUCCESS, 0)
           ELSE do_byte(l1, c)

\* Literals: string is the C string literal, its terminating NUL included,
\* so string[i + 1] here is string[i] in C
eat_literal(lexer, frame, length, string, c) ==
  IF c # string[lexer.length + 1] THEN Ret(do_nothing(SAJS_EXPECTED_LITERAL), lexer)
  ELSE LET l1 == [lexer EXCEPT !.length = @ + 1]
       IN  IF l1.length = length
           THEN pop(l1, SAJS_LITERAL, SAJS_SUCCESS, c)
           ELSE do_byte(l1, c)

eat_false(lexer, frame, c) ==
  eat_literal(lexer, frame, 5, <<Ch.f, Ch.a, Ch.l, Ch.s, Ch.e, Ch.nul>>, c)

eat_null(lexer, frame, c) ==
  eat_literal(lexer, frame, 4, <<Ch.n, Ch.u, Ch.l, Ch.l, Ch.nul>>, c)

eat_true(lexer, frame, c) ==
  eat_literal(lexer, frame, 4, <<Ch.t, Ch.r, Ch.u, Ch.e, Ch.nul>>, c)

(***************************************************************************)
(* Interface                                                               *)
(***************************************************************************)

\* NUM_INT_CONT, NUM_INT_END, NUM_FRAC_CONT, NUM_EXP_INT_CONT: 0x0012C000
last_digit_mask == 1228800

\* static SajsEatFunc handlers[SAJS_NUM_STATE]
handlers(state, lexer, frame, c) ==
  CASE state = STATE_START             -> eat_start(lexer, frame, c)
    [] state = STATE_ELEM_FIRST        -> eat_elem_first(lexer, frame, c)
    [] state = STATE_ELEM_SEP          -> eat_elem_sep(lexer, frame, c)
    [] state = STATE_ELEM_NEXT         -> eat_elem_next(lexer, frame, c)
    [] state = STATE_MEM_NAME_FIRST    -> eat_mem_name_first(lexer, frame, c)
    [] state = STATE_MEM_NAME_SEP      -> eat_mem_name_sep(lexer, frame, c)
    [] state = STATE_MEM_VALUE_START   -> eat_mem_value_start(lexer, frame, c)
    [] state = STATE_MEM_SEP           -> eat_mem_sep(lexer, frame, c)
    [] state = STATE_MEM_NEXT          -> eat_mem_next(lexer, frame, c)
    [] state = STATE_STRING            -> eat_string(lexer, frame, c)
    [] state = STATE_STRING_ESC        -> eat_string_esc(lexer, frame, c)
    [] state = STATE_STRING_ESC_HEX    -> eat_string_esc_hex(lexer, frame, c)
    [] state = STATE_STRING_ESC_LO     -> eat_string_esc_lo(lexer, frame, c)
    [] state = STATE_NUM_INT_START     -> eat_num_int_start(lexer, frame, c)
    [] state = STATE_NUM_INT_CONT      -> eat_num_int_cont(lexer, frame, c)
    [] state = STATE_NUM_INT_END       -> eat_num_int_end(lexer, frame, c)
    [] state = STATE_NUM_FRAC_START    -> eat_num_frac_start(lexer, frame, c)
    [] state = STATE_NUM_FRAC_CONT     -> eat_num_frac_cont(lexer, frame, c)
    [] state = STATE_NUM_EXP_START     -> eat_num_exp_start(lexer, frame, c)
    [] state = STATE_NUM_EXP_INT_START -> eat_num_exp_int_start(lexer, frame, c)
    [] state = STATE_NUM_EXP_INT_CONT  -> eat_num_exp_int_cont(lexer, frame, c)
    [] state = STATE_FALSE             -> eat_false(lexer, frame, c)
    [] state = STATE_NULL              -> eat_null(lexer, frame, c)
    [] state = STATE_TRUE              -> eat_true(lexer, frame, c)

\* Faulty variant: EOF ends a number at any depth
sajs_process_byte_any_depth(lexer, c) ==
  LET frame == top_frame(lexer)
      state == lexer.stack[frame]
  IN  IF c < 0
      THEN IF BitAnd(Pow2(state), last_digit_mask) # 0
           THEN pop(lexer, SAJS_NUMBER, SAJS_SUCCESS, 0)
           ELSE Ret(do_nothing(IF state # 0 THEN SAJS_NO_DATA ELSE SAJS_FAILURE), lexer)
      ELSE IF is_space(c) /\ state <= STATE_MEM_NEXT
      THEN Ret(do_nothing(SAJS_SUCCESS), lexer)
      ELSE handlers(state, lexer, frame, c)

\* Faulty variant: whitespace is not skipped in the last structural state
sajs_process_byte_below_mem_next(lexer, c) ==
  LET frame == top_frame(lexer)
      state == lexer.stack[frame]
  IN  IF c < 0
      THEN IF lexer.top = 1 /\ BitAnd(Pow2(state), last_digit_mask) # 0
           THEN pop(lexer, SAJS_NUMBER, SAJS_SUCCESS, 0)
           ELSE Ret(do_nothing(IF state # 0 THEN SAJS_NO_DATA ELSE SAJS_FAILURE), lexer)
      ELSE IF is_space(c) /\ state < STATE_MEM_NEXT
      THEN Ret(do_nothing(SAJS_SUCCESS), lexer)
      ELSE handlers(state, lexer, frame, c)

sajs_process_byte(lexer, c) ==
  LET frame == top_frame(lexer)
      state == lexer.stack[frame]
  IN  IF c < 0
      THEN IF lexer.top = 1 /\ BitAnd(Pow2(state), last_digit_mask) # 0
           THEN pop(lexer, SAJS_NUMBER, SAJS_SUCCESS, 0)
           ELSE Ret(do_nothing(IF state # 0 THEN SAJS_NO_DATA ELSE SAJS_FAILURE), lexer)
      ELSE IF is_space(c) /\ state <= STATE_MEM_NEXT
      THEN Ret(do_nothing(SAJS_SUCCESS), lexer)
      ELSE handlers(state, lexer, frame, c)

\* Faulty variant: the byte is not processed again after a Retry
sajs_read_byte_one_step(lexer, byte) == sajs_process_byte(lexer, byte)

\* Faulty variant: two Ends are never fused into a DoubleEnd
sajs_read_byte_no_fuse(lexer, byte) ==
  LET r1 == sajs_process_byte(lexer, byte)
  IN  IF r1.e.status = SAJS_RETRY
      THEN LET r2 == sajs_process_byte(r1.l, byte)
           IN  Ret([r1.e EXCEPT !.status = r2.e.status], r2.l)
      ELSE r1

\* the body of  if (e.status == SAJS_RETRY)  in sajs_read_byte: e is the event
\* of the first step, r2 the result of the second sajs_process_byte
sajs_read_byte_again(e, r2) ==
  LET f  == r2.e
      e1 == [e EXCEPT !.status = f.status]
  IN  IF e1.type = SAJS_EVENT_END /\ f.type = SAJS_EVENT_END
      THEN Ret([e1 EXCEPT !.kind = f.kind, !.type = SAJS_EVENT_DOUBLE_END], r2.l)
      ELSE Ret(e1, r2.l)

\* sajs_read_byte once the first sajs_process_byte has returned r1
sajs_read_byte_first(r1, byte) ==
  IF r1.e.status = SAJS_RETRY
  THEN sajs_read_byte_again(r1.e, sajs_process_byte(r1.l, byte))
  ELSE r1

sajs_read_byte(lexer, byte) ==
  sajs_read_byte_first(sajs_process_byte(lexer, byte), byte)

sajs_string(lexer) == [data |-> lexer.bytes, length |-> lexer.num_bytes]

(***************************************************************************)
(* Writer (src/src/writer.c).  A writer is the record                      *)
(*   [depth, top_kind, top_flags, top_bytes]   (struct SajsWriterImpl),    *)
(* depth an unsigned held as a U32, top_bytes indexed 0..7.  A text output *)
(* holds the bytes its pointer points at, indexed from 0.                  *)
(***************************************************************************)
HasFlag(flags, flag) == BitAnd(flags, flag) # 0

make_output(status, prefix, depth, length, bytes) ==
  [status |-> status, indent |-> depth, length |-> length, bytes |-> bytes,
   prefix |-> prefix]

WRet(output, writer) == [out |-> output, w |-> writer]

\* the string literal ""
EmptyString == [i \in 0..0 |-> 0]

\* Write nothing, return success
emit_nothing == make_output(SAJS_SUCCESS, SAJS_PREFIX_NONE, U32Zero, 0, EmptyString)

\* Write a single byte to the output
emit_byte(writer, byte) ==
  LET w1 == [writer EXCEPT !.top_bytes = [@ EXCEPT ![0] = byte, ![1] = 0]]
  IN  WRet(make_output(SAJS_SUCCESS, SAJS_PREFIX_NONE, U32Zero, 1, w1.top_bytes), w1)

\* Write a separator followed by a byte to the output
emit_sep(writer, prefix, depth, byte) ==
  LET w1 == [writer EXCEPT !.top_bytes = [@ EXCEPT ![0] = byte, ![1] = 0]]
  IN  WRet(make_output(SAJS_SUCCESS, prefix, depth, 1, w1.top_bytes), w1)

\* Write two adjacent bytes to the output
emit_pair(writer, a, b) ==
  LET w1 == [writer EXCEPT !.top_bytes = [@ EXCEPT ![0] = a, ![1] = b, ![2] = 0]]
  IN  WRet(make_output(SAJS_SUCCESS, SAJS_PREFIX_NONE, U32Zero, 2, w1.top_bytes), w1)

\* Faulty variant: the member name flag is tested before the member value flag
on_start_name_first(writer, kind, flags, head) ==
  LET w1       == [writer EXCEPT !.top_kind = kind, !.top_flags = flags]
      is_first == HasFlag(flags, SAJS_IS_FIRST)
      prefix   ==
        IF HasFlag(flags, SAJS_IS_MEMBER_NAME)
        THEN (IF is_first THEN SAJS_PREFIX_OBJECT_START ELSE SAJS_PREFIX_MEMBER_COMMA)
        ELSE IF HasFlag(flags, SAJS_IS_MEMBER_VALUE) THEN SAJS_PREFIX_MEMBER_COLON
        ELSE IF HasFlag(flags, SAJS_IS_ELEMENT)
        THEN (IF is_first THEN SAJS_PREFIX_ARRAY_START ELSE SAJS_PREFIX_ARRAY_COMMA)
        ELSE SAJS_PREFIX_NONE
      w2       == [w1 EXCEPT !.depth = U32Add(@, U32OfInt(1))]
  IN  CASE kind = SAJS_OBJECT -> emit_sep(w2, prefix, w1.depth, Ch.lbrace)
        [] kind = SAJS_ARRAY  -> emit_sep(w2, prefix, w1.depth, Ch.lbracket)
        [] kind = SAJS_STRING -> emit_sep(w1, prefix, w1.depth, Ch.quote)
        [] OTHER              -> emit_sep(w1, prefix, w1.depth, head)

\* Called when a value is started
on_start(writer, kind, flags, head) ==
  LET w1       == [writer EXCEPT !.top_kind = kind, !.top_flags = flags]
      is_first == HasFlag(flags, SAJS_IS_FIRST)
      prefix   ==
        IF HasFlag(flags, SAJS_IS_MEMBER_VALUE) THEN SAJS_PREFIX_MEMBER_COLON
        ELSE IF HasFlag(flags, SAJS_IS_MEMBER_NAME)
        THEN (IF is_first THEN SAJS_PREFIX_OBJECT_START ELSE SAJS_PREFIX_MEMBER_COMMA)
        ELSE IF HasFlag(flags, SAJS_IS_ELEMENT)
        THEN (IF is_first THEN SAJS_PREFIX_ARRAY_START ELSE SAJS_PREFIX_ARRAY_COMMA)
        ELSE SAJS_PREFIX_NONE
      \* writer->depth++ : the old depth is passed, the new one stored
      w2       == [w1 EXCEPT !.depth = U32Add(@, U32OfInt(1))]
  IN  CASE kind = SAJS_OBJECT -> emit_sep(w2, prefix, w1.depth, Ch.lbrace)
        [] kind = SAJS_ARRAY  -> emit_sep(w2, prefix, w1.depth, Ch.lbracket)
        [] kind = SAJS_STRING -> emit_sep(w1, prefix, w1.depth, Ch.quote)
        [] OTHER              -> emit_sep(w1, prefix, w1.depth, head)

\* the control character escape of on_byte: '0' + nibble for each hex digit
control_escape(byte) ==
  [i \in 0..7 |->
     CASE i = 0 -> Ch.backslash
       [] i = 1 -> Ch.u
       [] i = 2 -> Ch.zero
       [] i = 3 -> Ch.zero
       [] i = 4 -> (Ch.zero + (BitAnd(byte, 240) \div 16)) % 256
       [] i = 5 -> (Ch.zero + BitAnd(byte, 15)) % 256
       [] i = 6 -> 0
       [] OTHER -> 0]

\* Called on characters in a value
on_byte(writer, byte) ==
  IF writer.top_kind # SAJS_STRING
  THEN emit_byte(writer, byte)  \* Write syntactic (non-string) character directly
  ELSE CASE byte = Ch.quote \/ byte = Ch.backslash -> emit_pair(writer, Ch.backslash, byte)
         [] byte = Ch.bs  -> emit_pair(writer, Ch.backslash, Ch.b)
         [] byte = Ch.ff  -> emit_pair(writer, Ch.backslash, Ch.f)
         [] byte = Ch.lf  -> emit_pair(writer, Ch.backslash, Ch.n)
         [] byte = Ch.cr  -> emit_pair(writer, Ch.backslash, Ch.r)
         [] byte = Ch.tab -> emit_pair(writer, Ch.backslash, Ch.t)
         [] OTHER ->
            IF byte >= 32
            THEN emit_byte(writer, byte)  \* Printable ASCII or UTF-8
            ELSE \* Generic control character escape
                 LET w1 == [writer EXCEPT !.top_bytes =
                              [i \in 0..7 |-> IF i <= 6 THEN control_escape(byte)[i]
                                              ELSE writer.top_bytes[i]]]
                 IN  WRet(make_output(SAJS_SUCCESS, SAJS_PREFIX_NONE, w1.depth, 6,
                                      w1.top_bytes), w1)

\* Faulty variant: the depth is decremented after it is reported (depth--)
on_end_post_decrement(writer, kind, tail) ==
  LET w1 == [writer EXCEPT !.top_flags = 0]
      w2 == [w1 EXCEPT !.depth = U32Sub(@, U32OfInt(1))]
  IN  CASE kind = SAJS_OBJECT -> emit_sep(w2, SAJS_PREFIX_OBJECT_END, w1.depth, Ch.rbrace)
        [] kind = SAJS_ARRAY  -> emit_sep(w2, SAJS_PREFIX_ARRAY_END, w1.depth, Ch.rbracket)
        [] kind = SAJS_STRING -> emit_byte(w1, Ch.quote)
        [] OTHER -> IF tail # 0 THEN emit_byte(w1, tail) ELSE WRet(emit_nothing, w1)

\* Called when a value is finished
on_end(writer, kind, tail) ==
  LET w1 == [writer EXCEPT !.top_flags = 0]
      \* --writer->depth : unsigned, wraps below zero
      w2 == [w1 EXCEPT !.depth = U32Sub(@, U32OfInt(1))]
  IN  CASE kind = SAJS_OBJECT -> emit_sep(w2, SAJS_PREFIX_OBJECT_END, w2.depth, Ch.rbrace)
        [] kind = SAJS_ARRAY  -> emit_sep(w2, SAJS_PREFIX_ARRAY_END, w2.depth, Ch.rbracket)
        [] kind = SAJS_STRING -> emit_byte(w1, Ch.quote)
        [] OTHER -> IF tail # 0 THEN emit_byte(w1, tail) ELSE WRet(emit_nothing, w1)

\* mem is the caller's memory as it was before the call: depth is not assigned
sajs_writer_init(mem_size, mem) ==
  IF mem_size < SizeofSajsWriter
  THEN NULL
  ELSE [null      |-> FALSE,
        depth     |-> U32OfInt(mem.word),
        top_kind  |-> 0,
        top_flags |-> 0,
        top_bytes |-> [i \in 0..7 |-> IF i = 0 THEN 0 ELSE mem.byte]]

\* Faulty variant: a DoubleEnd ends the kind it names twice, the kind of the
\* last Start is not used
sajs_write_event_no_top_kind(writer, event, string) ==
  IF event.type = SAJS_EVENT_START
  THEN on_start(writer, event.kind, event.flags,
                IF HasFlag(event.flags, SAJS_HAS_BYTES) THEN string.data[0] ELSE 0)
  ELSE IF event.type = SAJS_EVENT_END
  THEN on_end(writer, event.kind,
              IF HasFlag(event.flags, SAJS_HAS_BYTES) THEN string.data[0] ELSE 0)
  ELSE IF event.type = SAJS_EVENT_DOUBLE_END
  THEN on_end(on_end(writer, event.kind, 0).w, event.kind, 0)
  ELSE IF event.type = SAJS_EVENT_BYTES
  THEN IF string.length = 1
       THEN on_byte(writer, string.data[0])
       ELSE WRet(make_output(SAJS_SUCCESS, SAJS_PREFIX_NONE, U32Zero, string.length,
                             string.data), writer)
  ELSE WRet(emit_nothing, writer)

sajs_write_event(writer, event, string) ==
  IF event.type = SAJS_EVENT_START
  THEN on_start(writer, event.kind, event.flags,
                IF HasFlag(event.flags, SAJS_HAS_BYTES) THEN string.data[0] ELSE 0)
  ELSE IF event.type = SAJS_EVENT_END
  THEN on_end(writer, event.kind,
              IF HasFlag(event.flags, SAJS_HAS_BYTES) THEN string.data[0] ELSE 0)
  ELSE IF event.type = SAJS_EVENT_DOUBLE_END
  THEN on_end(on_end(writer, writer.top_kind, 0).w, event.kind, 0)
  ELSE IF event.type = SAJS_EVENT_BYTES
  THEN IF string.length = 1
       THEN on_byte(writer, string.data[0])
       ELSE WRet(make_output(SAJS_SUCCESS, SAJS_PREFIX_NONE, U32Zero, string.length,
                             string.data), writer)
  ELSE WRet(emit_nothing, writer)

(***************************************************************************)
(* sajs-pipe (src/tools/sajs-pipe.c).  The output stream accepts every     *)
(* write, so a function that writes is an operator returning the bytes it  *)
(* wrote.  A PipeState is the record [num_values, depth, terse], depth an  *)
(* unsigned held as a U32.                                                 *)
(***************************************************************************)
\* sizeof(write_mem), an array of 8 uintptr_t
SizeofWriteMem == 64

\* the loop of write_newline: indent times two spaces
RECURSIVE write_indent(_)
write_indent(indent) ==
  IF indent = 0 THEN <<>> ELSE <<Ch.space, Ch.space>> \o write_indent(indent - 1)

\* Write a newline with indentation
write_newline(indent) == <<Ch.lf>> \o write_indent(U32Int(indent))

\* Write an output prefix (delimiter and whitespace) in normal or terse mode
write_prefix(out, terse) ==
  CASE out.prefix \in {SAJS_PREFIX_OBJECT_START, SAJS_PREFIX_ARRAY_START,
                       SAJS_PREFIX_OBJECT_END, SAJS_PREFIX_ARRAY_END} ->
         IF terse THEN <<>> ELSE write_newline(out.indent)
    [] out.prefix = SAJS_PREFIX_MEMBER_COLON ->
         IF terse THEN <<Ch.colon>> ELSE <<Ch.colon, Ch.space>>
    [] out.prefix \in {SAJS_PREFIX_MEMBER_COMMA, SAJS_PREFIX_ARRAY_COMMA} ->
         <<Ch.comma>> \o (IF terse THEN <<>> ELSE write_newline(out.indent))
    [] OTHER -> <<>>

\* Write an output fragment with prefix
write_output(out, terse) ==
  [st    |-> SAJS_SUCCESS,
   bytes |-> write_prefix(out, terse) \o [i \in 1..out.length |-> out.bytes[i - 1]]]

\* Update depth and return true if this was the end of the top value
update_depth(state, r) ==
  IF r.type = SAJS_EVENT_START
  THEN [state |-> [state EXCEPT !.depth = U32Add(@, U32OfInt(1))], is_top_end |-> FALSE]
  ELSE IF r.type = SAJS_EVENT_END
  THEN LET depth == U32Sub(state.depth, U32OfInt(1))
       IN  [state |-> [state EXCEPT !.depth = depth], is_top_end |-> depth = U32Zero]
  ELSE IF r.type = SAJS_EVENT_DOUBLE_END
  THEN LET depth == U32Sub(state.depth, U32OfInt(2))
       IN  [state |-> [state EXCEPT !.depth = depth], is_top_end |-> depth = U32Zero]
  ELSE [state |-> state, is_top_end |-> FALSE]

\* What one iteration of the loop of run leaves: the status st, the event r
\* that was read, the PipeState, the lexer, the writer and the bytes written.
\* The end of an iteration whose event was written as o by the writer, which
\* is left as w; u is what update_depth returned
run_written(u, r, w, o) ==
  IF o.st = SAJS_SUCCESS /\ u.is_top_end
  THEN \* Write top-level trailing newline
       [st |-> SAJS_SUCCESS, r |-> r.e,
        state |-> [u.state EXCEPT !.num_values = @ + 1],
        lexer |-> r.l, writer |-> w, written |-> o.bytes \o <<Ch.lf>>]
  ELSE [st |-> o.st, r |-> r.e, state |-> u.state, lexer |-> r.l,
        writer |-> w, written |-> o.bytes]

\* Write output: out is what sajs_write_event returned
run_write(u, r, out, terse) == run_written(u, r, out.w, write_output(out.out, terse))

\* one iteration of the loop of run, r being what sajs_read_byte returned for
\* the byte of fgetc
run_iteration(state, writer, r) ==
  IF r.e.status # SAJS_SUCCESS
  THEN [st |-> r.e.status, r |-> r.e, state |-> state, lexer |-> r.l,
        writer |-> writer, written |-> <<>>]
  ELSE run_write(update_depth(state, r.e), r,
                 sajs_write_event(writer, r.e, sajs_string(r.l)), state.terse)

\* the value run returns once the loop has ended with status st
run_result(state, st) ==
  IF state.num_values # 1 THEN 65
  ELSE IF st = SAJS_FAILURE THEN 0
  ELSE st + 100

(***************************************************************************)
(* Reference: the JSON grammar of RFC 8259, as a recognizer that is        *)
(* independent of the lexer.  It is only used to say which inputs are      *)
(* valid documents.  A document position is the record                     *)
(*   [hi, pos, ctx, key, acc, eof, chars]                                  *)
(* ctx the kinds of the open containers, key whether the string being read *)
(* is a member name, acc the hex digits of a \u escape or the rest of a    *)
(* literal, hi whether a high surrogate awaits its low half, eof whether   *)
(* the input has ended, chars the number of characters of the string being *)
(* read, counted up to MaxTally.  "dead" is the position of an invalid     *)
(* input.                                                                  *)
(***************************************************************************)
\* the largest number of characters or events counted in one string
MaxTally == 3

\* one more, for a count that stops past MaxTally
Tally(n) == IF n > MaxTally THEN n ELSE n + 1

DocInit ==
  [hi |-> FALSE, pos |-> "value", ctx |-> <<>>, key |-> FALSE, acc |-> <<>>, eof |-> FALSE,
   chars |-> 0]

DocDead ==
  [hi |-> FALSE, pos |-> "dead", ctx |-> <<>>, key |-> FALSE, acc |-> <<>>, eof |-> FALSE,
   chars |-> 0]

DocNumberAccepting == {"n_zero", "n_int", "n_frac", "n_exp"}

DocFront(s) == SubSeq(s, 1, Len(s) - 1)

DocHex(c) ==
  IF c >= Ch.zero /\ c <= Ch.nine THEN c - Ch.zero
  ELSE IF c >= Ch.a /\ c <= Ch.f THEN 10 + c - Ch.a
  ELSE IF c >= Ch.A /\ c <= Ch.F THEN 10 + c - Ch.A
  ELSE -1

\* a value starts with c; cap is the deepest nesting the lexer's stack can hold
DocStartValue(d, c, cap) ==
  LET at(p) == [d EXCEPT !.pos = p, !.key = FALSE, !.acc = <<>>, !.hi = FALSE, !.chars = 0]
  IN  IF Len(d.ctx) + 1 > cap THEN DocDead
      ELSE CASE c = Ch.quote    -> at("str")
             [] c = Ch.minus    -> at("n_minus")
             [] c = Ch.zero     -> at("n_zero")
             [] c > Ch.zero /\ c <= Ch.nine -> at("n_int")
             [] c = Ch.lbracket -> [at("first_elem") EXCEPT !.ctx = Append(d.ctx, SAJS_ARRAY)]
             [] c = Ch.lbrace   -> [at("first_key") EXCEPT !.ctx = Append(d.ctx, SAJS_OBJECT)]
             [] c = Ch.t        -> [at("lit") EXCEPT !.acc = <<Ch.r, Ch.u, Ch.e>>]
             [] c = Ch.f        -> [at("lit") EXCEPT !.acc = <<Ch.a, Ch.l, Ch.s, Ch.e>>]
             [] c = Ch.n        -> [at("lit") EXCEPT !.acc = <<Ch.u, Ch.l, Ch.l>>]
             [] OTHER           -> DocDead

DocStartName(d, c, cap) ==
  IF c = Ch.quote /\ Len(d.ctx) + 1 <= cap
  THEN [d EXCEPT !.pos = "str", !.key = TRUE, !.acc = <<>>, !.hi = FALSE, !.chars = 0]
  ELSE DocDead

DocClose(d, kind) ==
  IF d.ctx # <<>> /\ d.ctx[Len(d.ctx)] = kind
  THEN [d EXCEPT !.pos = "after", !.ctx = DocFront(d.ctx)]
  ELSE DocDead

DocAfterValue(d, c) ==
  CASE is_space(c)     -> d
    [] c = Ch.comma    -> IF d.ctx = <<>> THEN DocDead
                          ELSE IF d.ctx[Len(d.ctx)] = SAJS_ARRAY
                          THEN [d EXCEPT !.pos = "value"]
                          ELSE [d EXCEPT !.pos = "key"]
    [] c = Ch.rbracket -> DocClose(d, SAJS_ARRAY)
    [] c = Ch.rbrace   -> DocClose(d, SAJS_OBJECT)
    [] OTHER           -> DocDead

DocEndString(d) ==
  IF d.key THEN [d EXCEPT !.pos = "colon", !.key = FALSE, !.chars = 0]
  ELSE [d EXCEPT !.pos = "after", !.chars = 0]

\* a character of the string has been read to its end
DocChar(d) == [d EXCEPT !.pos = "str", !.acc = <<>>, !.chars = Tally(d.chars)]

\* the fourth hex digit of a \u escape has been read
DocEndEscape(d, acc) ==
  LET is_hi == acc[1] = 13 /\ acc[2] \in 8..11
      is_lo == acc[1] = 13 /\ acc[2] \in 12..15
      s     == [d EXCEPT !.acc = <<>>, !.hi = FALSE]
  IN  IF d.hi THEN (IF is_lo THEN DocChar(s) ELSE DocDead)
      ELSE IF is_hi THEN [s EXCEPT !.pos = "lo_bs", !.hi = TRUE]
      ELSE IF is_lo THEN DocDead
      ELSE DocChar(s)

\* the first byte of a UTF-8 sequence of more than one byte (RFC 3629): acc
\* becomes the number of bytes that follow and the range of the next one
DocUtf8Lead(d, c) ==
  LET to(n, lo, hi) == [d EXCEPT !.pos = "utf8", !.acc = <<n, lo, hi>>]
  IN  CASE c >= 194 /\ c <= 223 -> to(1, 128, 191)
        [] c = 224              -> to(2, 160, 191)
        [] c = 237              -> to(2, 128, 159)
        [] c >= 225 /\ c <= 239 -> to(2, 128, 191)
        [] c = 240              -> to(3, 144, 191)
        [] c >= 241 /\ c <= 243 -> to(3, 128, 191)
        [] c = 244              -> to(3, 128, 143)
        [] OTHER                -> DocDead

\* a later byte of a UTF-8 sequence
DocUtf8Next(d, c) ==
  IF c < d.acc[2] \/ c > d.acc[3] THEN DocDead
  ELSE IF d.acc[1] = 1 THEN DocChar(d)
  ELSE [d EXCEPT !.acc = <<d.acc[1] - 1, 128, 191>>]

DocInNumber(d, c) ==
  LET to(p)  == [d EXCEPT !.pos = p]
      isE    == c = Ch.e \/ c = Ch.E
      after  == DocAfterValue(to("after"), c)
  IN  CASE d.pos = "n_minus" -> IF c = Ch.zero THEN to("n_zero")
                                ELSE IF is_digit(c) THEN to("n_int") ELSE DocDead
        [] d.pos = "n_zero"  -> IF c = Ch.dot THEN to("n_dot")
                                ELSE IF isE THEN to("n_e") ELSE after
        [] d.pos = "n_int"   -> IF is_digit(c) THEN d
                                ELSE IF c = Ch.dot THEN to("n_dot")
                                ELSE IF isE THEN to("n_e") ELSE after
        [] d.pos = "n_dot"   -> IF is_digit(c) THEN to("n_frac") ELSE DocDead
        [] d.pos = "n_frac"  -> IF is_digit(c) THEN d
                                ELSE IF isE THEN to("n_e") ELSE after
        [] d.pos = "n_e"     -> IF c = Ch.plus \/ c = Ch.minus THEN to("n_esign")
                                ELSE IF is_digit(c) THEN to("n_exp") ELSE DocDead
        [] d.pos = "n_esign" -> IF is_digit(c) THEN to("n_exp") ELSE DocDead
        [] OTHER             -> IF is_digit(c) THEN d ELSE after  \* n_exp

DocInString(d, c) ==
  CASE d.pos = "str" ->
         IF c = Ch.quote THEN DocEndString(d)
         ELSE IF c = Ch.backslash THEN [d EXCEPT !.pos = "esc"]
         ELSE IF c >= 32 /\ c < 128 THEN DocChar(d)
         ELSE IF c >= 128 THEN DocUtf8Lead(d, c) ELSE DocDead
    [] d.pos = "utf8" -> DocUtf8Next(d, c)
    [] d.pos = "esc" ->
         IF c \in {Ch.quote, Ch.backslash, Ch.slash, Ch.b, Ch.f, Ch.n, Ch.r, Ch.t}
         THEN DocChar(d)
         ELSE IF c = Ch.u THEN [d EXCEPT !.pos = "hex", !.acc = <<>>] ELSE DocDead
    [] d.pos = "hex" ->
         IF DocHex(c) < 0 THEN DocDead
         ELSE IF Len(d.acc) = 3 THEN DocEndEscape(d, Append(d.acc, DocHex(c)))
         ELSE [d EXCEPT !.acc = Append(d.acc, DocHex(c))]
    [] d.pos = "lo_bs" -> IF c = Ch.backslash THEN [d EXCEPT !.pos = "lo_u"] ELSE DocDead
    [] OTHER -> IF c = Ch.u THEN [d EXCEPT !.pos = "hex", !.acc = <<>>] ELSE DocDead  \* lo_u

DocStep(d, c, cap) ==
  IF d.pos = "dead" THEN DocDead
  ELSE IF d.eof THEN (IF c < 0 THEN d ELSE DocDead)
  ELSE IF c < 0
  THEN IF d.ctx = <<>> /\ d.pos \in DocNumberAccepting \cup {"after"}
       THEN [d EXCEPT !.pos = "after", !.eof = TRUE]
       ELSE DocDead
  ELSE CASE d.pos = "value"      -> IF is_space(c) THEN d ELSE DocStartValue(d, c, cap)
         [] d.pos = "first_elem" -> IF is_space(c) THEN d
                                    ELSE IF c = Ch.rbracket THEN DocClose(d, SAJS_ARRAY)
                                    ELSE DocStartValue(d, c, cap)
         [] d.pos = "first_key"  -> IF is_space(c) THEN d
                                    ELSE IF c = Ch.rbrace THEN DocClose(d, SAJS_OBJECT)
                                    ELSE DocStartName(d, c, cap)
         [] d.pos = "key"        -> IF is_space(c) THEN d ELSE DocStartName(d, c, cap)
         [] d.pos = "colon"      -> IF is_space(c) THEN d
                                    ELSE IF c = Ch.colon THEN [d EXCEPT !.pos = "value"]
                                    ELSE DocDead
         [] d.pos = "after"      -> DocAfterValue(d, c)
         [] d.pos = "lit"        -> IF c # d.acc[1] THEN DocDead
                                    ELSE IF Len(d.acc) = 1
                                    THEN [d EXCEPT !.pos = "after", !.acc = <<>>]
                                    ELSE [d EXCEPT !.acc = Tail(d.acc)]
         [] d.pos \in {"str", "utf8", "esc", "hex", "lo_bs", "lo_u"} -> DocInString(d, c)
         [] OTHER                -> DocInNumber(d, c)

\* the input so far is a prefix of a valid document
DocAlive(d) == d.pos # "dead"

\* the input so far, ended by EOF, is a valid document with one top-level value
DocComplete(d) == d.pos = "after" /\ d.eof

(***************************************************************************)
(* The nesting of an event stream: open holds the kinds of the values that *)
(* were started and not yet ended, ok whether every End so far matched the *)
(* innermost open value, fresh for each open value whether no member name  *)
(* or element has started in it yet, bytes the number of Bytes events of   *)
(* the string that is open, counted up to MaxTally.  A DoubleEnd counts as *)
(* the End of a number or literal followed by the End of the container it  *)
(* names.                                                                  *)
(***************************************************************************)
MonInit == [open |-> <<>>, ok |-> TRUE, fresh |-> <<>>, bytes |-> 0]

MonEnd(m, kinds) ==
  IF m.open # <<>> /\ m.open[Len(m.open)] \in kinds
  THEN [m EXCEPT !.open = DocFront(m.open), !.fresh = DocFront(m.fresh), !.bytes = 0]
  ELSE [open |-> DocFront(m.open), ok |-> FALSE, fresh |-> DocFront(m.fresh), bytes |-> 0]

\* the event starts a member name or an array element
IsChild(e) ==
  HasFlag(e.flags, SAJS_IS_MEMBER_NAME) \/ HasFlag(e.flags, SAJS_IS_ELEMENT)

\* a value has started: the value it is in, if any, is no longer fresh when
\* this is a member name or an element of it
MonStart(m, e) ==
  LET marked == IF IsChild(e) /\ m.fresh # <<>>
                THEN [m.fresh EXCEPT ![Len(m.fresh)] = FALSE]
                ELSE m.fresh
  IN  [m EXCEPT !.open = Append(m.open, e.kind), !.fresh = Append(marked, TRUE),
                !.bytes = 0]

\* a Bytes event has been returned
MonBytes(m) ==
  IF m.open # <<>> /\ m.open[Len(m.open)] = SAJS_STRING
  THEN [m EXCEPT !.bytes = Tally(m.bytes)]
  ELSE m

MonStep(m, e) ==
  CASE e.type = SAJS_EVENT_START      -> MonStart(m, e)
    [] e.type = SAJS_EVENT_BYTES      -> MonBytes(m)
    [] e.type = SAJS_EVENT_END        -> MonEnd(m, {e.kind})
    [] e.type = SAJS_EVENT_DOUBLE_END ->
         MonEnd(MonEnd(m, {SAJS_NUMBER, SAJS_LITERAL}), {e.kind})
    [] OTHER                          -> m

(***************************************************************************)
(* The round trip.  The abstract value of an event stream is its sequence  *)
(* of items: the start of a value of some kind, a character byte, the end  *)
(* of a value.  The bytes sajs-pipe writes are read again by a second      *)
(* lexer, the relexer, and by the reference recognizer; a round trip is    *)
(* the record [relexer, outdoc, pending, ok], pending the items of the     *)
(* input that the output has not yet shown, ok whether the output has been *)
(* lexed with Success and has shown the input's items in order so far.     *)
(***************************************************************************)
StartItem(kind) == [t |-> "start", v |-> kind]

ByteItems(string, n) == [i \in 1..n |-> [t |-> "byte", v |-> string.data[i - 1]]]

\* the end of a number or of a literal is the end of a scalar
EndItem(kind) ==
  [t |-> "end", v |-> IF kind \in {SAJS_NUMBER, SAJS_LITERAL} THEN 0 ELSE kind]

\* the items of an event; string is the view sajs_string returns after it
EventItems(e, string) ==
  LET head == IF HasFlag(e.flags, SAJS_HAS_BYTES) THEN ByteItems(string, 1) ELSE <<>>
  IN  CASE e.type = SAJS_EVENT_START      -> <<StartItem(e.kind)>> \o head
        [] e.type = SAJS_EVENT_END        -> head \o <<EndItem(e.kind)>>
        [] e.type = SAJS_EVENT_DOUBLE_END -> <<EndItem(SAJS_NUMBER), EndItem(e.kind)>>
        [] e.type = SAJS_EVENT_BYTES      -> ByteItems(string, string.length)
        [] OTHER                          -> <<>>

IsPrefix(s, t) == Len(s) <= Len(t) /\ SubSeq(t, 1, Len(s)) = s

RtInit(relexer) ==
  [relexer |-> relexer, outdoc |-> DocInit, pending |-> <<>>, ok |-> TRUE]

\* the input has shown these items
RtExpect(rt, items) == IF rt.ok THEN [rt EXCEPT !.pending = @ \o items] ELSE rt

\* a byte of the output inside a string may be any byte of a UTF-8 character
OutStep(d, b, cap) == IF b >= 128 /\ d.pos = "str" THEN d ELSE DocStep(d, b, cap)

\* the relexer has returned r for the byte b of the output, r standing for items
RtShown(rt, b, r, items) ==
  LET shown == r.e.status = SAJS_SUCCESS /\ IsPrefix(items, rt.pending)
  IN  [relexer |-> r.l,
       outdoc  |-> OutStep(rt.outdoc, b, rt.relexer.max_depth - 1),
       pending |-> IF shown
                   THEN SubSeq(rt.pending, Len(items) + 1, Len(rt.pending))
                   ELSE rt.pending,
       ok      |-> shown]

RtRelexed(rt, b, r) ==
  RtShown(rt, b, r,
          IF r.e.status = SAJS_SUCCESS THEN EventItems(r.e, sajs_string(r.l)) ELSE <<>>)

\* the output has its next byte b (or has ended, b = EOF)
RtByte(rt, b) ==
  IF ~rt.ok THEN rt ELSE RtRelexed(rt, b, sajs_read_byte(rt.relexer, b))

RECURSIVE RtWrite(_, _)
RtWrite(rt, bytes) ==
  IF bytes = <<>> THEN rt ELSE RtWrite(RtByte(rt, Head(bytes)), Tail(bytes))

\* the output has ended: the relexer is given EOF until it returns a status
\* other than Success, which has to be Failure
RtFailure(rt, r) ==
  [rt EXCEPT !.relexer = r.l,
             !.outdoc = OutStep(@, EOF, rt.relexer.max_depth - 1),
             !.ok = rt.ok /\ r.e.status = SAJS_FAILURE]

RtEnded(rt, r) ==
  IF r.e.status = SAJS_SUCCESS
  THEN \* EOF has ended a top-level number
       RtFailure(RtRelexed(rt, EOF, r), sajs_read_byte(r.l, EOF))
  ELSE RtFailure(rt, r)

RtEnd(rt) ==
  IF ~rt.ok THEN rt ELSE RtEnded(rt, sajs_read_byte(rt.relexer, EOF))

(***************************************************************************)
(* Bounds                                                                  *)
(***************************************************************************)
\* the deepest nesting (lexer->top) a run of sajs-pipe is followed to
MaxNesting == 2
\* the largest number of top-level values a run of sajs-pipe is followed to
MaxValues == 1

\* the largest stack, in frames, a lexer is given
MaxStack == 3
\* the largest working length (lexer->length) a run is followed to
MaxLength == 10
\* the largest number of escape sequences in the strings of a run
MaxEscapes == 1

(***************************************************************************)
(* The inputs.  A run draws its bytes from one of these alphabets.         *)
(***************************************************************************)
AlphabetStructure ==
  {Ch.lbrace, Ch.rbrace, Ch.lbracket, Ch.rbracket, Ch.comma, Ch.colon, Ch.quote,
   Ch.space, Ch.minus, Ch.zero, Ch.one, Ch.dot, Ch.e, Ch.E, Ch.plus,
   Ch.t, Ch.r, Ch.u, Ch.f, Ch.a, Ch.l, Ch.s, Ch.n, Ch.x}

AlphabetEscape ==
  {Ch.quote, Ch.backslash, Ch.u, Ch.zero, Ch.b, Ch.n, Ch.x, Ch.sub,
   Ch.lbracket, Ch.rbracket}

AlphabetSurrogate ==
  {Ch.quote, Ch.backslash, Ch.u, Ch.d, Ch.eight, Ch.x}

\* the UTF-8 encodings of U+00E9 and U+20AC
Utf8 == [e_acute |-> <<195, 169>>, euro |-> <<226, 130, 172>>]

AlphabetUtf8 ==
  {Ch.quote, Ch.a, Ch.lbracket, Ch.rbracket, Ch.comma}
    \cup {Utf8.e_acute[i] : i \in 1..2} \cup {Utf8.euro[i] : i \in 1..3}

Alphabets == <<AlphabetStructure, AlphabetEscape, AlphabetSurrogate, AlphabetUtf8>>

\* what the caller's memory holds before an init call: a word and a byte pattern
JunkMem == {[word |-> 0, byte |-> 0], [word |-> 3, byte |-> 170]}

\* the memory sizes sajs_lexer_init is called with
LexerSizes == {SizeofSajsLexer + k : k \in 0..MaxStack}

\* the memory sizes of test/test_init.c
TestSizes == {0, 1, 8, 64}

InitSizes ==
  TestSizes \cup {SizeofSajsLexer + k : k \in -1..2}

WriterSizes ==
  TestSizes \cup {SizeofSajsWriter + k : k \in -1..1}

\* the values of the option -k sajs-pipe is run with
PipeStackSizes == {1, 8}

\* zeroed memory
ZeroMem == [word |-> 0, byte |-> 0]

(***************************************************************************)
(* State                                                                   *)
(***************************************************************************)
VARIABLES
  inited,    \* which init functions have been called
  lexer,     \* the SajsLexer*, NULL or the lexer it points to
  writer,    \* the SajsWriter*, NULL or the writer it points to
  alphabet,  \* the index of this run's input alphabet
  last,      \* the last API call: its name, its memory size or whether its input
             \* was EOF, and the event it returned
  doc,       \* the position of the input so far in the JSON grammar
  mon,       \* the nesting of the events returned so far
  escapes,   \* the number of escape sequences started so far
  pipe,      \* sajs-pipe: where main is, its PipeState, the st of run and the
             \* value main returns
  rt,        \* the round trip of the bytes sajs-pipe has written
  output     \* the last call of sajs_write_event by a caller of the writer: the
             \* string it was given and the SajsTextOutput it returned

vars == <<inited, lexer, writer, alphabet, last, doc, mon, escapes, pipe, rt, output>>

NoCall == [op |-> "none", size |-> 0, eof |-> FALSE, e |-> do_nothing(SAJS_SUCCESS)]

\* a string view of the bytes s: its length, and data as the caller's four bytes
StringOf(s) ==
  [length |-> Len(s), data |-> [i \in 0..3 |-> IF i < Len(s) THEN s[i + 1] ELSE 0]]

\* no call of sajs_write_event yet
NoOutput == [string |-> StringOf(<<>>), out |-> emit_nothing]

\* sajs-pipe before main is entered
PipeStart ==
  [pc |-> "start", state |-> [num_values |-> 0, depth |-> U32Zero, terse |-> FALSE],
   st |-> SAJS_SUCCESS, rc |-> 0]

Init ==
  /\ inited = [lexer |-> FALSE, writer |-> FALSE]
  /\ lexer = NULL
  /\ writer = NULL
  /\ alphabet \in 1..Len(Alphabets)
  /\ last = NoCall
  /\ doc = DocInit
  /\ mon = MonInit
  /\ escapes = 0
  /\ pipe = PipeStart
  /\ rt = RtInit(NULL)
  /\ output = NoOutput

\* lexer = sajs_lexer_init(mem_size, mem)
LexerInit(sizes) ==
  \E mem_size \in sizes, mem \in JunkMem :
    /\ ~inited.lexer
    /\ lexer' = sajs_lexer_init(mem_size, mem)
    /\ inited' = [inited EXCEPT !.lexer = TRUE]
    /\ last' = [NoCall EXCEPT !.op = "lexer_init", !.size = mem_size]
    /\ UNCHANGED <<writer, alphabet, doc, mon, escapes, pipe, rt, output>>

\* writer = sajs_writer_init(mem_size, mem)
WriterInit(sizes) ==
  \E mem_size \in sizes, mem \in JunkMem :
    /\ ~inited.writer
    /\ writer' = sajs_writer_init(mem_size, mem)
    /\ inited' = [inited EXCEPT !.writer = TRUE]
    /\ last' = [NoCall EXCEPT !.op = "writer_init", !.size = mem_size]
    /\ UNCHANGED <<lexer, alphabet, doc, mon, escapes, pipe, rt, output>>

\* c starts an escape sequence
StartsEscape(c) == c = Ch.backslash /\ lexer.stack[top_frame(lexer)] = STATE_STRING

\* sajs_read_byte(lexer, c) has returned r: its event and the lexer as it left it
Returned(r, c) ==
  /\ r.l.length <= MaxLength
  /\ lexer' = r.l
  /\ last' = [op |-> "read_byte", size |-> 0, eof |-> c < 0, e |-> r.e]
  /\ mon' = MonStep(mon, r.e)

\* event = sajs_read_byte(lexer, c)
Read(c) ==
  /\ inited.lexer
  /\ ~lexer.null
  /\ Returned(sajs_read_byte(lexer, c), c)
  /\ doc' = DocStep(doc, c, lexer.max_depth - 1)
  /\ escapes' = IF StartsEscape(c) THEN escapes + 1 ELSE escapes
  /\ escapes' <= MaxEscapes
  /\ UNCHANGED <<inited, writer, alphabet, pipe, rt, output>>

ReadByte == \E c \in Alphabets[alphabet] : Read(c)

ReadEOF == Read(EOF)

Next == LexerInit(LexerSizes) \/ ReadByte \/ ReadEOF

Spec == Init /\ [][Next]_vars

\* the init functions alone, over the sizes of test/test_init.c and the boundaries
NextInit == LexerInit(InitSizes) \/ WriterInit(WriterSizes)

SpecInit == Init /\ [][NextInit]_vars

\* main of sajs-pipe up to the loop of run: the lexer is set up in malloc'ed
\* memory of 64 + stack_size bytes, the writer in the zeroed write_mem
PipeMain ==
  \E stack_size \in PipeStackSizes, terse \in BOOLEAN, mem \in JunkMem :
    /\ pipe.pc = "start"
    /\ LET mem_size == 64 + stack_size
           l        == sajs_lexer_init(mem_size, mem)
       IN  /\ lexer' = l
           /\ writer' = IF l.null THEN writer
                        ELSE sajs_writer_init(SizeofWriteMem, ZeroMem)
           /\ pipe' = IF l.null
                      THEN [pipe EXCEPT !.pc = "done", !.rc = -12]
                      ELSE [pc    |-> "run",
                            state |-> [num_values |-> 0, depth |-> U32Zero,
                                       terse |-> terse],
                            st    |-> SAJS_SUCCESS,
                            rc    |-> 0]
           /\ rt' = RtInit(sajs_lexer_init(mem_size, ZeroMem))
           /\ last' = [NoCall EXCEPT !.op = "main", !.size = mem_size]
    /\ inited' = [lexer |-> TRUE, writer |-> TRUE]
    /\ UNCHANGED <<alphabet, doc, mon, escapes, output>>

\* the round trip after an iteration of the loop of run that left it; the
\* round trip of an input that is no valid document is not followed
RtIteration(it, d) ==
  IF ~DocAlive(d) THEN RtInit(NULL)
  ELSE IF it.r.status # SAJS_SUCCESS THEN RtEnd(rt)
  ELSE RtWrite(RtExpect(rt, EventItems(it.r, sajs_string(it.lexer))), it.written)

\* an iteration of the loop of run has left it: when st is set the loop ends,
\* and run and main return
Iterated(it, c) ==
  /\ it.state.num_values <= MaxValues
  /\ lexer' = it.lexer
  /\ writer' = it.writer
  /\ pipe' = [pc    |-> IF it.st # SAJS_SUCCESS THEN "done" ELSE "run",
              state |-> it.state,
              st    |-> it.st,
              rc    |-> IF it.st # SAJS_SUCCESS THEN run_result(it.state, it.st) ELSE 0]
  /\ last' = [op |-> "run", size |-> 0, eof |-> c < 0, e |-> it.r]
  /\ mon' = MonStep(mon, it.r)
  /\ rt' = RtIteration(it, DocStep(doc, c, lexer.max_depth - 1))

\* sajs_read_byte has returned r in the loop of run; runs that nest deeper
\* than MaxNesting are not followed
Fetched(r, c) ==
  /\ r.l.length <= MaxLength
  /\ r.l.top <= MaxNesting
  /\ (r.e.status = SAJS_SUCCESS /\ ~pipe.state.terse)
       => U32Less(sajs_write_event(writer, r.e, sajs_string(r.l)).out.indent,
                  MaxNesting + 1)
  /\ Iterated(run_iteration(pipe.state, writer, r), c)

\* one iteration of the loop of run with fgetc returning c and, when it ends
\* the loop, the rest of run and of main
RunStep(c) ==
  /\ pipe.pc = "run"
  /\ U32Less(pipe.state.depth, MaxNesting + 2)
  /\ U32Less(writer.depth, MaxNesting + 1)
  /\ Fetched(sajs_read_byte(lexer, c), c)
  /\ doc' = DocStep(doc, c, lexer.max_depth - 1)
  /\ escapes' = IF StartsEscape(c) THEN escapes + 1 ELSE escapes
  /\ escapes' <= MaxEscapes
  /\ UNCHANGED <<inited, alphabet, output>>

PipeRead == \E c \in Alphabets[alphabet] : RunStep(c)

PipeEOF == RunStep(EOF)

NextPipe == PipeMain \/ PipeRead \/ PipeEOF

SpecPipe == Init /\ [][NextPipe]_vars

(***************************************************************************)
(* A caller of the writer alone: it initialises a writer and passes it the *)
(* events of values that nest, with any flags, as a lexer would return     *)
(* them one by one.                                                        *)
(***************************************************************************)
\* the kinds of values
ValueKinds == SAJS_OBJECT..SAJS_LITERAL

\* every set of the flags that say where a value is
PositionFlags ==
  0..(SAJS_IS_MEMBER_NAME + SAJS_IS_MEMBER_VALUE + SAJS_IS_ELEMENT + SAJS_IS_FIRST)

\* the bytes of a one-byte Bytes event: control characters with an escape of
\* their own and without, a character to escape and one to pass
WriterBytes == {Ch.lf, Ch.vt, Ch.quote, Ch.a}

\* the strings of a Bytes event
WriterStrings == {StringOf(<<b>>) : b \in WriterBytes} \cup {StringOf(Utf8.e_acute)}

\* the innermost open value of the event stream, 0 when none
MonTop(m) == IF m.open = <<>> THEN 0 ELSE m.open[Len(m.open)]

\* the event continues a stream of values that nest, no deeper than MaxNesting
CanWrite(e) ==
  CASE e.type = SAJS_EVENT_START ->
         MonTop(mon) \in {0, SAJS_OBJECT, SAJS_ARRAY} /\ Len(mon.open) < MaxNesting
    [] e.type = SAJS_EVENT_BYTES ->
         MonTop(mon) \in {SAJS_STRING, SAJS_NUMBER, SAJS_LITERAL}
    [] e.type = SAJS_EVENT_END -> MonTop(mon) = e.kind
    [] e.type = SAJS_EVENT_DOUBLE_END ->
         /\ MonTop(mon) \in {SAJS_NUMBER, SAJS_LITERAL}
         /\ MonTop(MonEnd(mon, {SAJS_NUMBER, SAJS_LITERAL})) = e.kind
    [] OTHER -> TRUE

\* sajs_write_event(writer, event, string) has returned o: its output and the
\* writer as it left it
Written(o, event, string) ==
  /\ writer' = o.w
  /\ output' = [string |-> string, out |-> o.out]
  /\ last' = [op |-> "write_event", size |-> 0, eof |-> FALSE, e |-> event]
  /\ mon' = MonStep(mon, event)

\* out = sajs_write_event(writer, event, string)
Write(event, string) ==
  /\ inited.writer
  /\ ~writer.null
  /\ CanWrite(event)
  /\ Written(sajs_write_event(writer, event, string), event, string)
  /\ UNCHANGED <<inited, lexer, alphabet, doc, escapes, pipe, rt>>

\* the start of a value, or of a number or literal with its first byte
WriteStart ==
  \E kind \in ValueKinds, flags \in PositionFlags :
    \/ Write(SajsEvent(SAJS_SUCCESS, SAJS_EVENT_START, kind, flags), StringOf(<<>>))
    \/ /\ kind \in {SAJS_NUMBER, SAJS_LITERAL}
       /\ Write(SajsEvent(SAJS_SUCCESS, SAJS_EVENT_START, kind, flags + SAJS_HAS_BYTES),
                StringOf(<<IF kind = SAJS_NUMBER THEN Ch.one ELSE Ch.t>>))

\* a character of a string, number or literal
WriteBytes == \E string \in WriterStrings : Write(bytes_event, string)

\* the end of a value, or of a literal with its last byte
WriteEnd ==
  \E kind \in ValueKinds :
    \/ Write(SajsEvent(SAJS_SUCCESS, SAJS_EVENT_END, kind, 0), StringOf(<<>>))
    \/ /\ kind = SAJS_LITERAL
       /\ Write(SajsEvent(SAJS_SUCCESS, SAJS_EVENT_END, kind, SAJS_HAS_BYTES),
                StringOf(<<Ch.e>>))

\* the end of a number or literal and of the container it is in
WriteDoubleEnd ==
  \E kind \in {SAJS_OBJECT, SAJS_ARRAY} :
    Write(SajsEvent(SAJS_SUCCESS, SAJS_EVENT_DOUBLE_END, kind, 0), StringOf(<<>>))

\* an event of type Nothing
WriteNothing == Write(do_nothing(SAJS_SUCCESS), StringOf(<<>>))

NextWriter ==
  \/ WriterInit(WriterSizes)
  \/ WriteStart
  \/ WriteBytes
  \/ WriteEnd
  \/ WriteDoubleEnd
  \/ WriteNothing

\* the writer takes no input bytes: the alphabet is of no account
InitWriter == Init /\ alphabet = 1

SpecWriter == InitWriter /\ [][NextWriter]_vars

\* the loop of test (test/test_sajs.c): sajs_read_byte is called with the next
\* byte of the stream for as long as it returns Success, and a stream that
\* has ended stays ended
TestRead(c) ==
  /\ last.op = "read_byte" => (last.e.status = SAJS_SUCCESS /\ (last.eof => c < 0))
  /\ Read(c)

\* the bytes a number is written with
NumberAlphabet == {Ch.minus, Ch.plus, Ch.dot, Ch.e, Ch.E} \cup (Ch.zero .. Ch.nine)

NumberByte == \E c \in NumberAlphabet : TestRead(c)

NumberEOF == TestRead(EOF)

\* test reading a stream of number bytes
NextNumber == LexerInit(LexerSizes) \/ NumberByte \/ NumberEOF

SpecNumber == Init /\ [][NextNumber]_vars

(***************************************************************************)
(* Properties                                                              *)
(***************************************************************************)
\* every byte a run can read
AllBytes == UNION {Alphabets[i] : i \in 1..Len(Alphabets)}

LastRead == last.op = "read_byte"

TopState(l) == l.stack[top_frame(l)]

\* the states in which a number may end
AcceptingNumberStates ==
  {STATE_NUM_INT_CONT, STATE_NUM_INT_END, STATE_NUM_FRAC_CONT, STATE_NUM_EXP_INT_CONT}

\* C1: while the input is a valid JSON document with one top-level value
\* that fits the stack, every byte is answered with Success, the Start and
\* End events nest with matching kinds, the stack top is 0 once the top-level
\* value has closed, and the EOF that ends the input leads to the final
\* status Failure (a top-level number being ended by a first EOF).
C1_ValidDocumentLexes ==
  (LastRead /\ DocAlive(doc)) =>
    /\ mon.ok
    /\ ~last.eof => last.e.status = SAJS_SUCCESS
    /\ (doc.pos = "after" /\ doc.ctx = <<>>) => (lexer.top = 0 /\ mon.open = <<>>)
    /\ last.eof =>
         \/ last.e = do_nothing(SAJS_FAILURE)
         \/ /\ last.e = SajsEvent(SAJS_SUCCESS, SAJS_EVENT_END, SAJS_NUMBER, 0)
            /\ sajs_read_byte(lexer, EOF).e = do_nothing(SAJS_FAILURE)

\* C2: sajs_read_byte never returns the status Retry, whatever the reachable
\* lexer state and whatever the byte or EOF it is given.
C2_NeverRetry == LastRead => last.e.status # SAJS_RETRY

\* a number has just been ended by the byte that follows it, which is the
\* case where the byte is processed twice
C2_Witness ==
  /\ LastRead /\ ~last.eof
  /\ last.e = SajsEvent(SAJS_SUCCESS, SAJS_EVENT_END, SAJS_NUMBER, 0)
  /\ TopState(lexer) = STATE_ELEM_NEXT

\* c is ']' or '}' and arrives while the top frame is a number that may end
\* and the frame below it is the matching container awaiting a separator
DelimitsNumber(l, c) ==
  /\ ~l.null
  /\ l.top >= 1
  /\ TopState(l) \in AcceptingNumberStates
  /\ \/ c = Ch.rbracket /\ l.stack[l.top - 1] = STATE_ELEM_SEP
     \/ c = Ch.rbrace /\ l.stack[l.top - 1] = STATE_MEM_SEP

\* c is ']' or '}' and arrives directly after the last character of a
\* literal, closing the container the literal is in
DelimitsLiteral(l, c) ==
  /\ ~l.null
  /\ LastRead
  /\ last.e.type = SAJS_EVENT_END /\ last.e.kind = SAJS_LITERAL
  /\ last.e.status = SAJS_SUCCESS
  /\ \/ c = Ch.rbracket /\ TopState(l) = STATE_ELEM_SEP
     \/ c = Ch.rbrace /\ TopState(l) = STATE_MEM_SEP

ContainerClosedBy(c) == IF c = Ch.rbracket THEN SAJS_ARRAY ELSE SAJS_OBJECT

\* C3: when sajs-pipe has read a valid JSON document to its end, the bytes
\* it has written (each output's prefix under the terse or the indented
\* policy, then its fragment) are again a valid JSON document, and lexing
\* them succeeds and yields the kinds and characters of the input's events.
C3_RoundTrip ==
  (pipe.pc = "done" /\ DocComplete(doc)) =>
    /\ DocComplete(rt.outdoc)
    /\ rt.ok
    /\ rt.pending = <<>>

C5_EofHandling ==
  [][ReadEOF =>
       IF lexer.top = 1 /\ TopState(lexer) \in AcceptingNumberStates
       THEN /\ last'.e = SajsEvent(SAJS_SUCCESS, SAJS_EVENT_END, SAJS_NUMBER, 0)
            /\ lexer'.top = 0
            /\ sajs_read_byte(lexer', EOF).e = do_nothing(SAJS_FAILURE)
       ELSE IF TopState(lexer) = STATE_START
       THEN last'.e = do_nothing(SAJS_FAILURE) /\ lexer' = lexer
       ELSE last'.e = do_nothing(SAJS_NO_DATA) /\ lexer' = lexer]_vars

\* EOF has just ended a top-level number
C5_Witness ==
  /\ LastRead /\ last.eof
  /\ last.e = SajsEvent(SAJS_SUCCESS, SAJS_EVENT_END, SAJS_NUMBER, 0)
  /\ lexer.top = 0

\* C6, as claimed: whenever sajs_read_byte returns a status other than
\* Success (and other than Failure at EOF), the event type is Nothing.
C6_RejectionIsNothing ==
  (LastRead /\ last.e.status # SAJS_SUCCESS /\ ~(last.eof /\ last.e.status = SAJS_FAILURE))
    => last.e.type = SAJS_EVENT_NOTHING

\* C6, amended: an event returned with a status other than Success is Nothing
\* or End, never Start, DoubleEnd or Bytes; an End comes with a diagnostic
\* only as End(String) with ExpectedPrintable (a control byte in a string),
\* or as End(Number) with ExpectedDigit (a bad byte after exponent digits) or
\* with the status of the second step of a Retry (ExpectedValue at the top
\* level, ExpectedComma in a container); it never carries flags.
C6_RejectionIsNothingOrEnd ==
  (LastRead /\ last.e.status # SAJS_SUCCESS) =>
    \/ last.e.type = SAJS_EVENT_NOTHING
    \/ /\ last.e.type = SAJS_EVENT_END
       /\ last.e.flags = 0
       /\ \/ last.e.kind = SAJS_STRING /\ last.e.status = SAJS_EXPECTED_PRINTABLE
          \/ /\ last.e.kind = SAJS_NUMBER
             /\ last.e.status \in
                  {SAJS_EXPECTED_DIGIT, SAJS_EXPECTED_VALUE, SAJS_EXPECTED_COMMA}

\* a control byte inside a string was rejected with an End(String) event
C6_Witness ==
  /\ LastRead
  /\ last.e = SajsEvent(SAJS_EXPECTED_PRINTABLE, SAJS_EVENT_END, SAJS_STRING, 0)

\* c starts a value, or a member name, where the top frame expects one
ExpectsValue(l, c) ==
  LET starts == c \in {Ch.quote, Ch.minus, Ch.lbracket, Ch.lbrace, Ch.f, Ch.n, Ch.t}
                  \/ is_digit(c)
  IN  \/ /\ TopState(l) \in {STATE_START, STATE_ELEM_FIRST, STATE_ELEM_NEXT,
                             STATE_MEM_VALUE_START}
         /\ starts
      \/ TopState(l) \in {STATE_MEM_NAME_FIRST, STATE_MEM_NEXT} /\ c = Ch.quote

\* C7: a byte that starts a value while the stack is full is answered with
\* the event Nothing and the status Overflow, and changes nothing in the
\* lexer (top, every frame, flags, length, byte buffer); and Overflow is
\* never returned in any other way.
C7_OverflowChangesNothing ==
  [][/\ \A c \in AllBytes :
          (/\ ~lexer.null
           /\ lexer.top + 1 >= lexer.max_depth
           /\ ExpectsValue(lexer, c)
           /\ Read(c))
            => (last'.e = do_nothing(SAJS_OVERFLOW) /\ lexer' = lexer)
     /\ (last'.op = "read_byte" /\ last'.e.status = SAJS_OVERFLOW)
          => (last'.e = do_nothing(SAJS_OVERFLOW) /\ lexer' = lexer)]_vars

\* the first element of an array was refused for lack of stack, and the
\* array's frame still expects its first element
C7_Witness ==
  /\ LastRead
  /\ last.e.status = SAJS_OVERFLOW
  /\ lexer.top + 1 = lexer.max_depth
  /\ TopState(lexer) = STATE_ELEM_FIRST

\* C8: 0 <= top < max_depth in every lexer state reachable from
\* sajs_lexer_init by sajs_read_byte calls, calls after errors included.
C8_StackIndexInvariant ==
  (inited.lexer /\ ~lexer.null) => (0 <= lexer.top /\ lexer.top < lexer.max_depth)

\* the stack is full, after an error and further calls
C8_Witness ==
  /\ LastRead
  /\ lexer.top = lexer.max_depth - 1
  /\ lexer.top >= 2
  /\ ~mon.ok
  /\ last.e.status = SAJS_SUCCESS

\* C9: sajs_lexer_init returns NULL exactly when mem_size is smaller than the
\* lexer header plus one frame, and sajs_writer_init exactly when mem_size is
\* smaller than the writer header; a lexer that is returned starts with
\* top = 0, frame 0 = Start and max_depth = mem_size - header size.
C9_InitNullExactly ==
  /\ last.op = "lexer_init" =>
       /\ lexer.null <=> last.size < SizeofSajsLexer + SizeofSajsFrame
       /\ ~lexer.null =>
            /\ lexer.top = 0
            /\ lexer.stack[0] = STATE_START
            /\ lexer.max_depth = last.size - SizeofSajsLexer
  /\ last.op = "writer_init" =>
       /\ writer.null <=> last.size < SizeofSajsWriter
       /\ ~writer.null => (writer.top_kind = 0 /\ writer.top_flags = 0)

\* a lexer was set up in memory that holds the header and exactly one frame
C9_Witness ==
  /\ last.op = "lexer_init"
  /\ last.size = SizeofSajsLexer + SizeofSajsFrame
  /\ ~lexer.null
  /\ lexer.max_depth = 1

\* C10: whenever the event returned by sajs_read_byte carries HasBytes, the
\* view sajs_string returns next has a length between 1 and 4 and holds the
\* bytes of the event: the byte just read for a Start or an End, and for a
\* Bytes event outside an escape sequence.
C10_StringViewHoldsEventBytes ==
  [][(last'.op = "read_byte" /\ HasFlag(last'.e.flags, SAJS_HAS_BYTES)) =>
       \A c \in AllBytes :
         Read(c) =>
           LET view == sajs_string(lexer')
           IN  /\ view.length >= 1 /\ view.length <= 4
               /\ (\/ last'.e.type \in {SAJS_EVENT_START, SAJS_EVENT_END}
                   \/ TopState(lexer) \notin {STATE_STRING_ESC, STATE_STRING_ESC_HEX,
                                              STATE_STRING_ESC_LO})
                    => (view.length = 1 /\ view.data[0] = c)]_vars

\* C11: for every byte string s over {-, +, ., e, E, 0-9} read at the top
\* level and followed by EOF, the lexer accepts s - Start(Number) on the first
\* byte, a Bytes event on every later one, End(Number) with Success on EOF and
\* Failure on the EOF after it - if and only if s is a number of the grammar
\* -? (0 | [1-9][0-9]*) (. [0-9]+)? ([eE] [+-]? [0-9]+)?
C11_NumberGrammar ==
  [][last'.op = "read_byte" =>
       /\ (~last'.eof /\ DocAlive(doc')) =>
            last'.e = IF doc.pos = "value"
                      THEN SajsEvent(SAJS_SUCCESS, SAJS_EVENT_START, SAJS_NUMBER,
                                     SAJS_HAS_BYTES)
                      ELSE bytes_event
       /\ (last'.eof /\ ~doc.eof) =>
            (DocComplete(doc') <=>
               /\ last'.e = SajsEvent(SAJS_SUCCESS, SAJS_EVENT_END, SAJS_NUMBER, 0)
               /\ sajs_read_byte(lexer', EOF).e = do_nothing(SAJS_FAILURE))]_vars

\* the value that encloses the next event has had no member name or element
InFresh(m) == m.fresh # <<>> /\ m.fresh[Len(m.fresh)]

\* C12: a Start event that carries IsFirst is a member name or an element,
\* and the first such Start inside the value that encloses it; the first
\* member name or element started inside a value carries IsFirst and later
\* ones do not; and while the input is a valid document, a Start carries
\* IsFirst exactly when it starts the first member name of an object or the
\* first element of an array.
C12_IsFirstIsTheFirst ==
  [][(last'.op = "read_byte" /\ last'.e.type = SAJS_EVENT_START) =>
       /\ HasFlag(last'.e.flags, SAJS_IS_FIRST) =>
            (IsChild(last'.e) /\ (mon.open # <<>> => InFresh(mon)))
       /\ (IsChild(last'.e) /\ mon.open # <<>>) =>
            (HasFlag(last'.e.flags, SAJS_IS_FIRST) <=> InFresh(mon))
       /\ DocAlive(doc') =>
            (HasFlag(last'.e.flags, SAJS_IS_FIRST)
               <=> doc.pos \in {"first_elem", "first_key"})]_vars

\* a second element has started, without IsFirst, in an array
C12_Witness ==
  /\ LastRead
  /\ last.e = SajsEvent(SAJS_SUCCESS, SAJS_EVENT_START, SAJS_NUMBER,
                        SAJS_IS_ELEMENT + SAJS_HAS_BYTES)
  /\ mon.open = <<SAJS_ARRAY, SAJS_NUMBER>>
  /\ mon.fresh = <<FALSE, TRUE>>

\* C13: in a valid document, when a string ends, the number of Bytes events
\* returned since its Start equals the number of characters of the string
\* (escape sequences and UTF-8 sequences counting as one character each), for
\* strings of up to MaxTally characters and events
C13_OneBytesEventPerCharacter ==
  [][(/\ last'.op = "read_byte"
      /\ last'.e.type = SAJS_EVENT_END
      /\ last'.e.kind = SAJS_STRING
      /\ DocAlive(doc')
      /\ mon.bytes <= MaxTally
      /\ doc.chars <= MaxTally) => mon.bytes = doc.chars]_vars

\* the statuses sajs_read_byte returns for the bytes of s, read one after
\* the other, r being what the call for the first of them returned
RECURSIVE StatusesOf(_, _)
StatusesFrom(r, s) == <<r.e.status>> \o StatusesOf(r.l, Tail(s))

StatusesOf(l, s) ==
  IF s = <<>> THEN <<>> ELSE StatusesFrom(sajs_read_byte(l, Head(s)), s)

\* the bytes were consumed up to one that was rejected with ExpectedUtf16Lo
RejectedUtf16Lo(st) ==
  \E k \in 1..Len(st) :
    st[k] = SAJS_EXPECTED_UTF16_LO /\ \A j \in 1..(k - 1) : st[j] = SAJS_SUCCESS

\* the six bytes are the escape of a low surrogate, \uDC00 to \uDFFF
IsLowSurrogateEscape(s) ==
  /\ s[1] = Ch.backslash
  /\ s[2] = Ch.u
  /\ DocHex(s[3]) = 13
  /\ DocHex(s[4]) \in 12..15
  /\ DocHex(s[5]) >= 0
  /\ DocHex(s[6]) >= 0

\* the length of a \u escape
EscapeLength == 6

\* C14: inside a string of a valid document, when three hex digits of a \u
\* escape that no high surrogate precedes make DC0 to DFF, the fourth hex
\* digit is answered with ExpectedUtf16Hi and event Nothing; and when the
\* escape of a high surrogate has just been read, any six bytes that are not
\* the escape of a low surrogate are consumed up to one that is rejected with
\* ExpectedUtf16Lo.
C14_SurrogateRejection ==
  LastRead =>
    /\ (doc.pos = "hex" /\ ~doc.hi /\ Len(doc.acc) = 3
          /\ doc.acc[1] = 13 /\ doc.acc[2] \in 12..15) =>
         \A c \in Alphabets[alphabet] :
           DocHex(c) >= 0 =>
             sajs_read_byte(lexer, c).e = do_nothing(SAJS_EXPECTED_UTF16_HI)
    /\ doc.pos = "lo_bs" =>
         \A s \in [1..EscapeLength -> Alphabets[alphabet]] :
           IsLowSurrogateEscape(s) \/ RejectedUtf16Lo(StatusesOf(lexer, s))

\* C15: when sajs-pipe has left the loop of run, main returns 0 if the input
\* was exactly one valid top-level value, 100 + st if the lexer stopped with
\* a parse error status (any status but Failure, such as NoData for a
\* truncated document or ExpectedValue inside the first value), and 65 if the
\* lexer stopped with Failure after no or more than one top-level value.
C15_ExitCodes ==
  (pipe.pc = "done" /\ last.op = "run") =>
    /\ DocComplete(doc) => pipe.rc = 0
    /\ pipe.st # SAJS_FAILURE => pipe.rc = 100 + pipe.st
    /\ (pipe.st = SAJS_FAILURE /\ pipe.state.num_values # 1) => pipe.rc = 65

\* C16: the output sajs_write_event returns for a Start, End, DoubleEnd or
\* Bytes event reports as its indent the depth of the writer, as it is before
\* or after the call (the two differ when a container starts or ends).
C16_IndentIsDepth ==
  [][(last'.op = "write_event" /\ last'.e.type # SAJS_EVENT_NOTHING) =>
       output'.out.indent \in {writer.depth, writer'.depth}]_vars

\* the character of the hexadecimal digit n, 0-9 and A-F
HexDigit(n) == IF n < 10 THEN Ch.zero + n ELSE Ch.A + (n - 10)

\* the bytes with a two-character escape of their own: \b \t \n \f \r
ShortEscaped == {Ch.bs, Ch.tab, Ch.lf, Ch.ff, Ch.cr}

\* C17: for a Bytes event of one byte b below 0x20, other than \b \f \n \r
\* \t, inside a String, the writer returns the six bytes \u00XY, X and Y the
\* hexadecimal digits (0-9, A-F) of the high and the low nibble of b.
C17_ControlEscape ==
  [][(/\ last'.op = "write_event"
      /\ last'.e.type = SAJS_EVENT_BYTES
      /\ MonTop(mon) = SAJS_STRING
      /\ output'.string.length = 1
      /\ output'.string.data[0] < Ch.space
      /\ output'.string.data[0] \notin ShortEscaped) =>
       /\ output'.out.status = SAJS_SUCCESS
       /\ output'.out.length = 6
       /\ [i \in 0..5 |-> output'.out.bytes[i]] =
            [i \in 0..5 |->
               CASE i = 0 -> Ch.backslash
                 [] i = 1 -> Ch.u
                 [] i \in {2, 3} -> Ch.zero
                 [] i = 4 -> HexDigit(output'.string.data[0] \div 16)
                 [] OTHER -> HexDigit(output'.string.data[0] % 16)]]_vars

\* C18: the prefix of the output for a Start event is decided by the flags of
\* the event alone, whatever the kind of the value and the state of the
\* writer: MemberColon with IsMemberValue; else, with IsMemberName,
\* ObjectStart if IsFirst and MemberComma if not; else, with IsElement,
\* ArrayStart if IsFirst and ArrayComma if not; else None.
C18_PrefixFromFlags ==
  [][(last'.op = "write_event" /\ last'.e.type = SAJS_EVENT_START) =>
       LET has(flag) == HasFlag(last'.e.flags, flag)
           prefix    == output'.out.prefix
       IN  /\ has(SAJS_IS_MEMBER_VALUE) => prefix = SAJS_PREFIX_MEMBER_COLON
           /\ (~has(SAJS_IS_MEMBER_VALUE) /\ has(SAJS_IS_MEMBER_NAME)) =>
                prefix = IF has(SAJS_IS_FIRST) THEN SAJS_PREFIX_OBJECT_START
                         ELSE SAJS_PREFIX_MEMBER_COMMA
           /\ (~has(SAJS_IS_MEMBER_VALUE) /\ ~has(SAJS_IS_MEMBER_NAME)
                 /\ has(SAJS_IS_ELEMENT)) =>
                prefix = IF has(SAJS_IS_FIRST) THEN SAJS_PREFIX_ARRAY_START
                         ELSE SAJS_PREFIX_ARRAY_COMMA
           /\ (~has(SAJS_IS_MEMBER_VALUE) /\ ~has(SAJS_IS_MEMBER_NAME)
                 /\ ~has(SAJS_IS_ELEMENT)) => prefix = SAJS_PREFIX_NONE]_vars

\* the start of a literal with the flags IsMemberValue, IsMemberName and
\* IsFirst, inside an array, was written with the prefix MemberColon
C18_Witness ==
  /\ last.op = "write_event"
  /\ last.e = SajsEvent(SAJS_SUCCESS, SAJS_EVENT_START, SAJS_LITERAL,
                        SAJS_IS_MEMBER_VALUE + SAJS_IS_MEMBER_NAME + SAJS_IS_FIRST
                          + SAJS_HAS_BYTES)
  /\ mon.open = <<SAJS_ARRAY, SAJS_LITERAL>>
  /\ output.out.prefix = SAJS_PREFIX_MEMBER_COLON

\* C19: in a valid document, the byte that starts a literal (f, n or t where
\* a value may start) is answered with Start(Literal) with HasBytes, every
\* further character of the literal but the last with a Bytes event, and the
\* last with End(Literal), Success and HasBytes, the string view holding the
\* byte just read each time; a byte that is not the next character of the
\* literal is answered with ExpectedLiteral and event Nothing, and the lexer
\* is left as it was.
C19_LiteralEvents ==
  [][(/\ last'.op = "read_byte"
      /\ ~last'.eof
      /\ doc.pos = "lit" \/ (DocAlive(doc) /\ doc'.pos = "lit")) =>
     \A c \in Alphabets[alphabet] :
       Read(c) =>
         /\ (DocAlive(doc) /\ doc.pos # "lit" /\ doc'.pos = "lit") =>
              /\ last'.e.status = SAJS_SUCCESS
              /\ last'.e.type = SAJS_EVENT_START
              /\ last'.e.kind = SAJS_LITERAL
              /\ HasFlag(last'.e.flags, SAJS_HAS_BYTES)
              /\ sajs_string(lexer').data[0] = c
         /\ (doc.pos = "lit" /\ c = doc.acc[1] /\ Len(doc.acc) > 1) =>
              /\ last'.e = bytes_event
              /\ sajs_string(lexer').data[0] = c
         /\ (doc.pos = "lit" /\ c = doc.acc[1] /\ Len(doc.acc) = 1) =>
              /\ last'.e = SajsEvent(SAJS_SUCCESS, SAJS_EVENT_END, SAJS_LITERAL,
                                     SAJS_HAS_BYTES)
              /\ sajs_string(lexer').data[0] = c
         /\ (doc.pos = "lit" /\ c # doc.acc[1]) =>
              /\ last'.e = do_nothing(SAJS_EXPECTED_LITERAL)
              /\ lexer' = lexer]_vars

\* the literal true, the first element of an array, has been read to its end
C19_Witness ==
  /\ LastRead
  /\ last.e = SajsEvent(SAJS_SUCCESS, SAJS_EVENT_END, SAJS_LITERAL, SAJS_HAS_BYTES)
  /\ sajs_string(lexer).data[0] = Ch.e
  /\ mon.open = <<SAJS_ARRAY>>
  /\ doc.pos = "after"

\* a Start event has just been returned for a value at the top level
TopLevelStart ==
  /\ LastRead
  /\ last.e.type = SAJS_EVENT_START
  /\ lexer.top = 1

Pending(d) ==
  CASE d.pos = "key" -> <<Ch.comma>>
    [] d.pos = "value" /\ d.ctx # <<>> ->
         IF d.ctx[Len(d.ctx)] = SAJS_ARRAY THEN <<Ch.comma>> ELSE <<Ch.colon>>
    [] OTHER -> <<>>

\* the byte c, read at the position d of a document, is of a document without
\* whitespace outside strings, without escape sequences and with strings of
\* printable ASCII
IsPlain(d, c) ==
  /\ d.pos \notin {"esc", "hex", "lo_bs", "lo_u", "utf8"}
  /\ d.pos = "str" => (c >= Ch.space /\ c < 127 /\ c # Ch.backslash)
  /\ d.pos # "str" => ~is_space(c)

\* the bytes of the output of the writer for the event e, in terse mode
Terse(w, e, l) == write_output(sajs_write_event(w, e, sajs_string(l)).out, TRUE).bytes

\* C21: while sajs-pipe reads a valid document without whitespace outside
\* strings, without escape sequences and with strings of printable ASCII,
\* every byte is lexed with Success and the output of the writer for its
\* event, rendered in terse mode, is the byte itself, preceded by the ',' or
\* ':' read just before it; a ',' or ':' is itself rendered as nothing until
\* the next byte; and the EOF after the document is answered with Failure, or
\* ends a top-level number with an event that is rendered as nothing.  The
\* rendered bytes of the whole document are then its bytes.
C21_TerseReproducesInput ==
  [][(last'.op = "run" /\ DocAlive(doc')) =>
       \A c \in Alphabets[alphabet] \cup {EOF} :
         (/\ doc' = DocStep(doc, c, lexer.max_depth - 1)
          /\ c >= 0 => IsPlain(doc, c)
          /\ ~doc.eof
          /\ RunStep(c)) =>
           IF c < 0
           THEN \/ last'.e.status = SAJS_FAILURE
                \/ /\ last'.e.status = SAJS_SUCCESS
                   /\ Terse(writer, last'.e, lexer') = <<>>
           ELSE /\ last'.e.status = SAJS_SUCCESS
                /\ Terse(writer, last'.e, lexer') =
                     IF doc'.pos \in {"value", "key"} THEN <<>>
                     ELSE Pending(doc) \o <<c>>]_vars

\* the events sajs_read_byte returns for the bytes of s, read one after the
\* other, each with the string view that follows it; r is what the call for
\* the first of them returned
RECURSIVE EventsOf(_, _)
EventsFrom(r, s) ==
  <<[e |-> r.e, string |-> sajs_string(r.l)]>> \o EventsOf(r.l, Tail(s))

EventsOf(l, s) ==
  IF s = <<>> THEN <<>> ELSE EventsFrom(sajs_read_byte(l, Head(s)), s)

\* the UTF-8 encoding of the code point cp (RFC 3629)
Utf8Of(cp) ==
  IF cp < 128 THEN <<cp>>
  ELSE IF cp < 2048 THEN <<192 + (cp \div 64), 128 + (cp % 64)>>
  ELSE IF cp < 65536
  THEN <<224 + (cp \div 4096), 128 + ((cp \div 64) % 64), 128 + (cp % 64)>>
  ELSE <<240 + (cp \div 262144), 128 + ((cp \div 4096) % 64),
         128 + ((cp \div 64) % 64), 128 + (cp % 64)>>

\* the events are Nothing with Success but for the last, which is one Bytes
\* event with exactly these bytes
YieldsCharacter(evs, bytes) ==
  /\ \A i \in 1..(Len(evs) - 1) : evs[i].e = do_nothing(SAJS_SUCCESS)
  /\ evs[Len(evs)].e = bytes_event
  /\ evs[Len(evs)].string.length = Len(bytes)
  /\ \A i \in 1..Len(bytes) : evs[Len(evs)].string.data[i - 1] = bytes[i]

\* the hex digits of the escapes a run over the alphabet A can read
EscapeDigits(A) == IF Ch.backslash \in A THEN {c \in A : DocHex(c) >= 0} ELSE {}

\* the UTF-16 code unit of four hex digits
CodeUnit(h) ==
  ((DocHex(h[1]) * 16 + DocHex(h[2])) * 16 + DocHex(h[3])) * 16 + DocHex(h[4])

\* the escape \uXXXX with the hex digits h
EscapeOf(h) == <<Ch.backslash, Ch.u>> \o h

HighSurrogates == 55296..56319

LowSurrogates == 56320..57343

\* C22: inside a string of a valid document, every escape \uXXXX of a code
\* point that is no surrogate is answered with Nothing and Success on its
\* first five bytes and on the sixth with one Bytes event whose string is the
\* UTF-8 encoding of the code point; and every escape of a high surrogate hi
\* followed by the escape of a low surrogate lo is answered with Nothing and
\* Success on its first eleven bytes and on the twelfth with one Bytes event
\* whose string is the four bytes of the UTF-8 encoding of
\* (hi - 0xD800) * 0x400 + (lo - 0xDC00) + 0x10000.
C22_EscapeIsUtf8 ==
  (LastRead /\ doc.pos = "str") =>
    \A h \in [1..4 -> EscapeDigits(Alphabets[alphabet])] :
      /\ CodeUnit(h) \notin HighSurrogates \cup LowSurrogates =>
           YieldsCharacter(EventsOf(lexer, EscapeOf(h)), Utf8Of(CodeUnit(h)))
      /\ CodeUnit(h) \in HighSurrogates =>
           \A g \in [1..4 -> EscapeDigits(Alphabets[alphabet])] :
             CodeUnit(g) \in LowSurrogates =>
               YieldsCharacter(EventsOf(lexer, EscapeOf(h) \o EscapeOf(g)),
                               Utf8Of((CodeUnit(h) - 55296) * 1024
                                        + (CodeUnit(g) - 56320) + 65536))

\* the escapes \ud8d8 and \udd88 have been read in a string and answered with
\* the four bytes F1 86 86 88 of U+46188
C22_Witness ==
  /\ LastRead
  /\ last.e = bytes_event
  /\ doc.pos = "str"
  /\ doc.chars = 1
  /\ sajs_string(lexer).length = 4
  /\ [i \in 1..4 |-> sajs_string(lexer).data[i - 1]] = Utf8Of(287112)

\* the output the writer of sajs-pipe has just returned for the event of the
\* last iteration of run
RunOutput == sajs_write_event(writer, last'.e, sajs_string(lexer')).out

\* the output comes with a prefix and reports the indent n
PrefixedIndent(out, n) == out.prefix # SAJS_PREFIX_NONE => out.indent = U32OfInt(n)

\* C23: while sajs-pipe reads a valid document, every output of its writer
\* that comes with a prefix reports as its indent the number of containers
\* that enclose the token written: for a Start, the containers open before
\* it; for the End of a container (a DoubleEnd included), the containers open
\* after it.  The closing bracket of a container so has the indent of its
\* opening bracket, and its member names, member values and elements that
\* indent plus one.
C23_IndentIsNesting ==
  [][(last'.op = "run" /\ DocAlive(doc') /\ last'.e.status = SAJS_SUCCESS) =>
       PrefixedIndent(RunOutput,
                      IF last'.e.type = SAJS_EVENT_START THEN Len(doc.ctx)
                      ELSE Len(doc'.ctx))]_vars

\* the ']' of an array inside an array has been written, with the prefix
\* ArrayEnd and indent 1, by the writer of sajs-pipe
C23_Witness ==
  /\ last.op = "run"
  /\ last.e = SajsEvent(SAJS_SUCCESS, SAJS_EVENT_END, SAJS_ARRAY, 0)
  /\ doc.pos = "after"
  /\ doc.ctx = <<SAJS_ARRAY>>
  /\ writer.depth = U32OfInt(1)
  /\ writer.top_bytes[0] = Ch.rbracket

\* C24: in state StringEscLo, when the escape of a high surrogate has just
\* been read in a string of a valid document, the only six bytes that are
\* all answered with Success (and so let the string go on to be completed)
\* are '\', 'u' and four hex digits that make a low surrogate: of any other
\* six bytes, one is answered with a status other than Success.
C24_ExactLowSurrogateEscape ==
  (LastRead /\ doc.pos = "lo_bs" /\ TopState(lexer) = STATE_STRING_ESC_LO) =>
    \A s \in [1..EscapeLength -> Alphabets[alphabet]] :
      \/ IsLowSurrogateEscape(s)
      \/ \E k \in 1..EscapeLength : StatusesOf(lexer, s)[k] # SAJS_SUCCESS

\* the states of a number
NumberStates == STATE_NUM_INT_START..STATE_NUM_EXP_INT_CONT

\* C25: when sajs_read_byte, given a byte (not EOF) while the top frame is a
\* number, returns an End or DoubleEnd event, the byte is a delimiter: tab,
\* LF, CR, space, ',', ']' or '}'.  A byte that is no delimiter never ends a
\* number, with Success or otherwise.
C25_NumberEndsOnDelimiter ==
  [][(/\ last'.op = "read_byte"
      /\ ~last'.eof
      /\ TopState(lexer) \in NumberStates
      /\ last'.e.type \in {SAJS_EVENT_END, SAJS_EVENT_DOUBLE_END}) =>
       \A c \in Alphabets[alphabet] : Read(c) => is_number_end(c)]_vars

\* sajs_read_byte has fused the first step r1, which returned Retry, with the
\* second step r2 of the same byte
FusedWith(r1, r2) ==
  /\ r1.e.type = SAJS_EVENT_END
  /\ r1.e.kind = SAJS_NUMBER
  /\ lexer' = r2.l
  /\ last'.e.status = r2.e.status
  /\ last'.e.flags = 0
  /\ IF r2.e.type = SAJS_EVENT_END
     THEN /\ last'.e.type = SAJS_EVENT_DOUBLE_END
          /\ last'.e.kind = r2.e.kind
          /\ lexer'.top = lexer.top - 2
     ELSE /\ last'.e.type = SAJS_EVENT_END
          /\ last'.e.kind = SAJS_NUMBER
          /\ lexer'.top = lexer.top - 1

Fused(r1, c) == FusedWith(r1, sajs_process_byte(r1.l, c))

\* C26: when the first step of sajs_read_byte answers a byte with Retry, it
\* has popped a number; the byte is processed once more, against the frame
\* below; the status returned is that of the second step; the event returned
\* is DoubleEnd with the kind of the second step's event if that is an End,
\* with the stack top lower by 2, and End(Number) otherwise, with the stack
\* top lower by 1.
C26_RetryFusion ==
  [][(/\ last'.op = "read_byte"
      /\ ~last'.eof
      /\ TopState(lexer) \in NumberStates) =>
       \A c \in Alphabets[alphabet] :
         (Read(c) /\ sajs_process_byte(lexer, c).e.status = SAJS_RETRY) =>
           Fused(sajs_process_byte(lexer, c), c)]_vars

\* what eat_string is to return for the byte c in the lexer l: r
StringByte(l, c, r) ==
  CASE c = Ch.quote ->
         /\ r.e = SajsEvent(SAJS_SUCCESS, SAJS_EVENT_END, SAJS_STRING, 0)
         /\ r.l.top = l.top - 1
    [] c = Ch.backslash ->
         /\ r.e = do_nothing(SAJS_SUCCESS)
         /\ r.l.top = l.top
         /\ TopState(r.l) = STATE_STRING_ESC
    [] c < Ch.space ->
         /\ r.e = SajsEvent(SAJS_EXPECTED_PRINTABLE, SAJS_EVENT_END, SAJS_STRING, 0)
         /\ r.l.top = l.top - 1
    [] OTHER ->
         /\ r.e = bytes_event
         /\ sajs_string(r.l).length = 1
         /\ sajs_string(r.l).data[0] = c
         /\ r.l.top = l.top
         /\ r.l.stack = l.stack

Whitespace == {Ch.tab, Ch.lf, Ch.cr, Ch.space}

\* the states between values: Start, ElemFirst, ElemSep, ElemNext,
\* MemNameFirst, MemNameSep, MemValueStart, MemSep, MemNext
StructuralStates == STATE_START..STATE_MEM_NEXT

\* what sajs_read_byte is to return for the whitespace byte in the lexer l: r
SkipsWhitespace(l, r) ==
  IF TopState(l) \in StructuralStates
  THEN r.e = do_nothing(SAJS_SUCCESS) /\ r.l = l
  ELSE r.e # do_nothing(SAJS_SUCCESS)

\* C28: in each of the nine structural states a tab, LF, CR or space is
\* answered with Nothing and Success and leaves the lexer as it was (stack
\* top, frames and flags); in the states of a string, a number or a literal
\* it is not skipped: the answer is an event other than Nothing, or a status
\* other than Success.
C28_WhitespaceSkipped ==
  (inited.lexer /\ ~lexer.null) =>
    \A c \in Whitespace : SkipsWhitespace(lexer, sajs_read_byte(lexer, c))

\* a space between a member name and its ':' has been skipped
C28_Witness ==
  /\ LastRead
  /\ last.e = do_nothing(SAJS_SUCCESS)
  /\ TopState(lexer) = STATE_MEM_NAME_SEP
  /\ doc.pos = "colon"


\* the flags of the event that say what the value is in its container
Role(e) == BitAnd(e.flags, SAJS_IS_MEMBER_NAME + SAJS_IS_MEMBER_VALUE + SAJS_IS_ELEMENT)

\* e starts a value where the frame in state s takes one, and leaves that
\* frame in state s1
RoleIn(s, e, s1) ==
  CASE s = STATE_START -> Role(e) = 0
    [] s \in {STATE_ELEM_FIRST, STATE_ELEM_NEXT} ->
         Role(e) = SAJS_IS_ELEMENT /\ s1 = STATE_ELEM_SEP
    [] s \in {STATE_MEM_NAME_FIRST, STATE_MEM_NEXT} ->
         e.kind = SAJS_STRING /\ Role(e) = SAJS_IS_MEMBER_NAME /\ s1 = STATE_MEM_NAME_SEP
    [] s = STATE_MEM_VALUE_START -> Role(e) = SAJS_IS_MEMBER_VALUE /\ s1 = STATE_MEM_SEP
    [] OTHER -> FALSE

\* e starts a value at the place d of a document
RoleAt(d, e) ==
  CASE d.ctx = <<>> -> Role(e) = 0
    [] d.ctx # <<>> /\ d.ctx[Len(d.ctx)] = SAJS_ARRAY -> Role(e) = SAJS_IS_ELEMENT
    [] d.ctx # <<>> /\ d.ctx[Len(d.ctx)] = SAJS_OBJECT /\ d.pos \in {"first_key", "key"} ->
         e.kind = SAJS_STRING /\ Role(e) = SAJS_IS_MEMBER_NAME
    [] OTHER -> d.pos = "value" /\ Role(e) = SAJS_IS_MEMBER_VALUE

\* the lexer l is where an object may end: before the first name or after a
\* member value, directly (End) or under a number that ends too (DoubleEnd)
ObjectMayEnd(l, type) ==
  IF type = SAJS_EVENT_END
  THEN TopState(l) \in {STATE_MEM_NAME_FIRST, STATE_MEM_SEP}
  ELSE /\ TopState(l) \in NumberStates
       /\ l.top > 0
       /\ l.stack[l.top - 1] = STATE_MEM_SEP

\* C29: on every accepted byte, a Start carries the flag of the place its
\* value is at: none at the top level, IsElement alone in an array, and in an
\* object IsMemberName on a String where a name is due and IsMemberValue where
\* a value is due, the frame of the object alternating between the two; this
\* both by the frame of the lexer in every run and by the place in the
\* document while the input is a prefix of one.  An object ends only on '}',
\* with its frame before the first name or after a member value.
C29_RoleFlags ==
  [][(last'.op = "read_byte" /\ last'.e.status = SAJS_SUCCESS) =>
       /\ last'.e.type = SAJS_EVENT_START =>
            /\ RoleIn(TopState(lexer), last'.e, lexer'.stack[lexer.top])
            /\ DocAlive(doc') => RoleAt(doc, last'.e)
       /\ (/\ last'.e.kind = SAJS_OBJECT
           /\ last'.e.type \in {SAJS_EVENT_END, SAJS_EVENT_DOUBLE_END}) =>
            /\ ObjectMayEnd(lexer, last'.e.type)
            /\ \A c \in Alphabets[alphabet] \cup {EOF} : Read(c) => c = Ch.rbrace
            /\ DocAlive(doc') =>
                 /\ doc.ctx # <<>> /\ doc.ctx[Len(doc.ctx)] = SAJS_OBJECT
                 /\ doc.pos \notin {"key", "value", "colon"}]_vars

\* the value of a member of an object has started, after its name and colon
C29_Witness ==
  /\ last.op = "read_byte"
  /\ last.e.status = SAJS_SUCCESS
  /\ last.e.type = SAJS_EVENT_START
  /\ Role(last.e) = SAJS_IS_MEMBER_VALUE
  /\ mon.open = <<SAJS_OBJECT, last.e.kind>>
  /\ mon.fresh = <<FALSE, TRUE>>
  /\ lexer.top = 2
  /\ lexer.stack[1] = STATE_MEM_SEP
  /\ DocAlive(doc)
  /\ doc.ctx = <<SAJS_OBJECT>>


\* r rejects a byte with status st and leaves the stack of l as it was
Rejects(l, r, st) ==
  /\ r.e = do_nothing(st)
  /\ r.l.top = l.top
  /\ r.l.stack = l.stack

\* the document d is just after a comma in a container of kind k
AfterComma(d, k) ==
  /\ d.ctx # <<>>
  /\ d.ctx[Len(d.ctx)] = k
  /\ d.pos = (IF k = SAJS_ARRAY THEN "value" ELSE "key")

\* C30: a trailing comma is rejected: after a comma in an array, ']' returns
\* EXPECTED_VALUE, and after a comma in an object, '}' returns EXPECTED_QUOTE,
\* each with the event Nothing and with the top and the frames of the stack
\* unchanged; the lexer is in these states wherever a document is after such
\* a comma.
C30_TrailingComma ==
  (inited.lexer /\ ~lexer.null) =>
    /\ (DocAlive(doc) /\ ~doc.eof /\ AfterComma(doc, SAJS_ARRAY)) =>
         TopState(lexer) = STATE_ELEM_NEXT
    /\ (DocAlive(doc) /\ ~doc.eof /\ AfterComma(doc, SAJS_OBJECT)) =>
         TopState(lexer) = STATE_MEM_NEXT
    /\ TopState(lexer) = STATE_ELEM_NEXT =>
         Rejects(lexer, sajs_read_byte(lexer, Ch.rbracket), SAJS_EXPECTED_VALUE)
    /\ TopState(lexer) = STATE_MEM_NEXT =>
         Rejects(lexer, sajs_read_byte(lexer, Ch.rbrace), SAJS_EXPECTED_QUOTE)

\* a byte that is no quote was rejected after the comma that follows the first
\* member of an object
C30_Witness ==
  /\ last.op = "read_byte"
  /\ last.e = do_nothing(SAJS_EXPECTED_QUOTE)
  /\ lexer.top = 1
  /\ TopState(lexer) = STATE_MEM_NEXT
  /\ mon.open = <<SAJS_OBJECT>>
  /\ mon.fresh = <<FALSE>>
  /\ ~DocAlive(doc)


\* out is the closing bracket of a container of this kind and nothing else,
\* with the prefix of its end
ClosesContainer(out, kind) ==
  /\ out.status = SAJS_SUCCESS
  /\ out.length = 1
  /\ out.bytes[0] = (IF kind = SAJS_OBJECT THEN Ch.rbrace ELSE Ch.rbracket)
  /\ out.prefix = (IF kind = SAJS_OBJECT THEN SAJS_PREFIX_OBJECT_END
                   ELSE SAJS_PREFIX_ARRAY_END)

\* C31: whenever the lexer of sajs-pipe returns a DoubleEnd, the innermost
\* value its events have left open is a number, the last value started, and
\* the writer that was passed these events holds top_kind = Number; the
\* DoubleEnd names a container, and the writer takes one from its depth and
\* returns the closing bracket of that container alone, with the prefix
\* ObjectEnd or ArrayEnd.
C31_DoubleEndAfterNumber ==
  [][(last'.op = "run" /\ last'.e.type = SAJS_EVENT_DOUBLE_END) =>
       /\ last'.e.status = SAJS_SUCCESS
       /\ last'.e.kind \in {SAJS_OBJECT, SAJS_ARRAY}
       /\ MonTop(mon) = SAJS_NUMBER
       /\ mon.fresh[Len(mon.fresh)]
       /\ writer.top_kind = SAJS_NUMBER
       /\ writer'.depth = U32Sub(writer.depth, U32OfInt(1))
       /\ ClosesContainer(RunOutput, last'.e.kind)]_vars

\* sajs-pipe has read [1] : the ']' was returned as the DoubleEnd of the
\* array, and its writer is back at depth 0 with the ']' as its bytes
C31_Witness ==
  /\ last.op = "run"
  /\ last.e = SajsEvent(SAJS_SUCCESS, SAJS_EVENT_DOUBLE_END, SAJS_ARRAY, 0)
  /\ doc.pos = "after"
  /\ doc.ctx = <<>>
  /\ writer.top_kind = SAJS_NUMBER
  /\ writer.depth = U32Zero
  /\ writer.top_bytes[0] = Ch.rbracket
  /\ pipe.state.num_values = 1


\* the lexer l after sajs_read_byte has been called with each byte of s
RECURSIVE LexerAfter(_, _)
LexerAfter(l, s) ==
  IF s = <<>> THEN l ELSE LexerAfter(sajs_read_byte(l, Head(s)).l, Tail(s))

\* hex digits of two sorts: a decimal digit and a letter
HexSample == {Ch.eight, Ch.F}

\* the lexer l has read the hex digits h of an escape since it entered
\* StringEscHex: after any further digits that make them four, its value is
\* the code unit the four digits spell
RECURSIVE SpellsCodeUnit(_, _)
SpellsCodeUnit(l, h) ==
  IF Len(h) = 4 THEN l.value = U32OfInt(CodeUnit(h))
  ELSE \A c \in HexSample : SpellsCodeUnit(sajs_read_byte(l, c).l, Append(h, c))

\* the lexer l has just entered StringEscHex: its working length is 0, and
\* after any four hex digits its value is the code unit they spell
EntersEscHex(l) ==
  /\ TopState(l) = STATE_STRING_ESC_HEX
  /\ l.length = 0
  /\ SpellsCodeUnit(l, <<>>)

\* C32: wherever the lexer is in a string, its working length is 0, and the
\* bytes '\' and 'u' take it into StringEscHex with the working length 0, so
\* that the value after the next four hex digits is the code unit of these
\* four digits alone, whatever an earlier escape, literal or number left in
\* the lexer.  This holds in every run, so in those without an error status.
C32_EscHexStartsEmpty ==
  (inited.lexer /\ ~lexer.null /\ TopState(lexer) = STATE_STRING) =>
    /\ lexer.length = 0
    /\ EntersEscHex(LexerAfter(lexer, <<Ch.backslash, Ch.u>>))

\* the lexer is in a string after an escape that left a value other than 0
C32_Witness ==
  /\ LastRead
  /\ last.e = bytes_event
  /\ TopState(lexer) = STATE_STRING
  /\ lexer.value # U32Zero
  /\ escapes = 1
  /\ doc.pos = "str"


\* C33: no call of sajs_read_byte, after whatever bytes, ends of input and
\* errors, returns the status Underflow; an End is only returned from a stack
\* with a value on it, and a DoubleEnd from one with two.
C33_NoUnderflow ==
  [][last'.op = "read_byte" =>
       /\ last'.e.status # SAJS_UNDERFLOW
       /\ last'.e.type = SAJS_EVENT_END => lexer.top >= 1
       /\ last'.e.type = SAJS_EVENT_DOUBLE_END => lexer.top >= 2]_vars

\* the last open value has been ended, in a run that went on after an error
C33_Witness ==
  /\ LastRead
  /\ last.e.type = SAJS_EVENT_END
  /\ last.e.status = SAJS_SUCCESS
  /\ lexer.top = 0
  /\ ~DocAlive(doc)
  /\ mon.open = <<>>
  /\ mon.ok


\* the change of the stack top that goes with an event of this type
TopChange(type) ==
  CASE type = SAJS_EVENT_START      -> 1
    [] type = SAJS_EVENT_END        -> -1
    [] type = SAJS_EVENT_DOUBLE_END -> -2
    [] OTHER                        -> 0

\* C34: every call of sajs_read_byte changes the stack top by what the type
\* of the event it returns says: +1 for a Start, -1 for an End, -2 for a
\* DoubleEnd, and nothing for Nothing or Bytes; so no value is pushed whose
\* Start is not returned, and none is popped whose End is not.
C34_EventsMatchStack ==
  [][last'.op = "read_byte" => lexer'.top - lexer.top = TopChange(last'.e.type)]_vars


\* the states of the frame of an array or an object
ContainerStates == STATE_ELEM_FIRST..STATE_MEM_NEXT

\* the number of Object and Array frames open on the stack of the lexer l
ContainerFrames(l) == Cardinality({i \in 1..l.top : l.stack[i] \in ContainerStates})

\* C35: in sajs-pipe, where every event returned with Success is passed to
\* the writer, the depth of the writer is the number of Object and Array
\* frames open on the stack of the lexer, and the depth counter of run is the
\* stack top: neither is taken below 0, so neither wraps around.
C35_WriterDepthIsContainers ==
  pipe.pc \in {"run", "done"} /\ ~lexer.null =>
    /\ writer.depth = U32OfInt(ContainerFrames(lexer))
    /\ pipe.st = SAJS_SUCCESS => pipe.state.depth = U32OfInt(lexer.top)
    /\ U32Less(pipe.state.depth, MaxNesting + 1)


\* C36: in every state of the lexer the frame at index 0 holds Start and the
\* frames at the indices 1..top hold other states; and sajs_read_byte at end
\* of input returns Failure exactly when the top is 0, that is when no value
\* is open.
C36_BottomFrameIsStart ==
  (inited.lexer /\ ~lexer.null) =>
    /\ lexer.stack[0] = STATE_START
    /\ \A i \in 1..lexer.top : lexer.stack[i] # STATE_START
    /\ sajs_read_byte(lexer, EOF).e.status = SAJS_FAILURE <=> lexer.top = 0

\* the end of input has been answered with Failure after a complete
\* top-level value: nothing is open and the bottom frame is the top
C36_Witness ==
  /\ LastRead
  /\ last.eof
  /\ last.e = do_nothing(SAJS_FAILURE)
  /\ lexer.top = 0
  /\ DocComplete(doc)
  /\ doc.eof
  /\ mon.open = <<>>


\* bytes that start a value: of each scalar and container kind, and the
\* digits zero and other
ValueStarts ==
  {Ch.quote, Ch.minus, Ch.zero, Ch.one, Ch.lbracket, Ch.lbrace, Ch.f, Ch.n, Ch.t}

\* r is the result for a byte that starts a value where the lexer l takes
\* one: the value is pushed and its Start returned if and only if there is a
\* frame left above the top, and Overflow is returned otherwise
PushedIffRoom(l, r) ==
  IF l.top + 1 < l.max_depth
  THEN r.e.status = SAJS_SUCCESS /\ r.e.type = SAJS_EVENT_START /\ r.l.top = l.top + 1
  ELSE r.e = do_nothing(SAJS_OVERFLOW) /\ r.l.top = l.top

\* C37: a lexer with a stack of max_depth frames never has more than
\* max_depth - 1 values open, scalars included: a byte that starts a value
\* where one is taken pushes it if and only if top + 1 < max_depth, and is
\* answered with Overflow otherwise.  A lexer set up in the least memory that
\* is accepted, with one frame, so never leaves top 0, skips whitespace and
\* answers the first byte of every value with Overflow.
C37_OneFrameHoldsNoValue ==
  (inited.lexer /\ ~lexer.null) =>
    /\ lexer.top <= lexer.max_depth - 1
    /\ \A c \in ValueStarts :
         ExpectsValue(lexer, c) => PushedIffRoom(lexer, sajs_read_byte(lexer, c))
    /\ lexer.max_depth = 1 =>
         /\ lexer.top = 0
         /\ \A c \in ValueStarts : sajs_read_byte(lexer, c).e = do_nothing(SAJS_OVERFLOW)
         /\ \A c \in Whitespace : sajs_read_byte(lexer, c).e = do_nothing(SAJS_SUCCESS)

\* a lexer of one frame has answered a byte with Overflow
C37_Witness ==
  /\ LastRead
  /\ last.e = do_nothing(SAJS_OVERFLOW)
  /\ lexer.max_depth = 1
  /\ lexer.top = 0
  /\ lexer.stack[0] = STATE_START


\* the last event written starts (type Start) or ends (type End) a container
\* at the top level
TopLevelContainer(type) ==
  /\ last.op = "write_event"
  /\ last.e.type = type
  /\ last.e.kind \in {SAJS_OBJECT, SAJS_ARRAY}
  /\ Len(mon.open) = (IF type = SAJS_EVENT_START THEN 1 ELSE 0)
  /\ mon.ok

\* C38: right after sajs_writer_init has returned a writer, its depth is 0,
\* whatever the memory held before the call; and the Start of a container at
\* the top level is reported with the indent 0, as is its End.
C38_WriterStartsAtDepthZero ==
  /\ (last.op = "writer_init" /\ ~writer.null) => writer.depth = U32Zero
  /\ TopLevelContainer(SAJS_EVENT_START) => output.out.indent = U32Zero
  /\ TopLevelContainer(SAJS_EVENT_END) => output.out.indent = U32Zero


\* the states of a literal
LiteralStates == STATE_FALSE..STATE_TRUE

\* the text of the literal of a state
LiteralText(state) ==
  CASE state = STATE_FALSE -> <<Ch.f, Ch.a, Ch.l, Ch.s, Ch.e>>
    [] state = STATE_NULL  -> <<Ch.n, Ch.u, Ch.l, Ch.l>>
    [] state = STATE_TRUE  -> <<Ch.t, Ch.r, Ch.u, Ch.e>>

\* r is the result for the byte c read inside the literal text: the literal
\* is popped exactly when c is its last character, goes on by one character
\* when c is the next but not the last, and the lexer is left alone otherwise
LiteralStep(l, c, text, r) ==
  IF c # text[l.length + 1]
  THEN r.e.type = SAJS_EVENT_NOTHING /\ r.l = l
  ELSE IF l.length + 1 = Len(text)
  THEN r.e.type = SAJS_EVENT_END /\ r.e.kind = SAJS_LITERAL /\ r.l.top = l.top - 1
  ELSE /\ r.e.type = SAJS_EVENT_BYTES
       /\ r.l.top = l.top
       /\ TopState(r.l) = TopState(l)
       /\ r.l.length = l.length + 1

\* C39: whenever the top frame is False, Null or True, the working length is
\* at least 1 and less than the length of the literal, so the character
\* eat_literal compares with, the one at index length, is one of the literal
\* text; the characters read so far are the first length characters of the
\* text (in a valid document, the rest of the text is what is still to come),
\* and the literal is popped exactly by the byte that matches its last
\* character.
C39_LiteralLengthInText ==
  (inited.lexer /\ ~lexer.null /\ TopState(lexer) \in LiteralStates) =>
    /\ 1 <= lexer.length
    /\ lexer.length < Len(LiteralText(TopState(lexer)))
    /\ DocAlive(doc) =>
         /\ doc.pos = "lit"
         /\ doc.acc = SubSeq(LiteralText(TopState(lexer)), lexer.length + 1,
                             Len(LiteralText(TopState(lexer))))
    /\ \A c \in Alphabets[alphabet] :
         LiteralStep(lexer, c, LiteralText(TopState(lexer)), sajs_read_byte(lexer, c))

\* the characters fals of the literal false have been read
C39_Witness ==
  /\ LastRead
  /\ last.e = bytes_event
  /\ TopState(lexer) = STATE_FALSE
  /\ lexer.length = 4
  /\ sajs_string(lexer).data[0] = Ch.s
  /\ DocAlive(doc)

====
